---------------------------- MODULE Spec2Model ----------------------------
(***************************************************************************)
(* A model of rdmahandler: two peers (a server and a client) joined by a   *)
(* TCP control channel and an RDMA reliable connection.                    *)
(*                                                                         *)
(*   SpecInit    InitServer and InitClient: resources_create, connect_qp   *)
(*               and the teardown of a failed initialisation.              *)
(*   SpecCreate  resources_create alone, and resources_destroy on the set  *)
(*               it leaves.                                                *)
(*   SpecQp      connect_qp alone, on two peers whose resources_create     *)
(*               succeeded.                                                *)
(*   SpecLink    SpecQp followed by each peer's calls of Write and Read.   *)
(*   SpecConn    SpecInit in a run without failing calls, on hosts of      *)
(*               either byte order, each peer's thread kept running.       *)
(*   SpecXfer    two connected peers calling Write and Read.               *)
(*   SpecData    SpecXfer in a run with failing calls.                     *)
(*   SpecPair    SpecLink without short writes.                            *)
(*   SpecLabel   one Write or Read call under two role labels.             *)
(*   SpecDev     resources_create alone, over the devices of the host.     *)
(*   SpecTwice   SpecCreate with repeated Destroy calls.                   *)
(*   SpecStale   the data path with a clock: poll timeouts between calls.  *)
(*   SpecBlock   one call on each peer, with fairness of the threads.      *)
(*   SpecAbort   connect_qp with failing verbs, with fairness.             *)
(*   SpecCopy    the copies of Write and the conversions of Read alone.    *)
(*   SpecMain    the control flow of main of the command-line program.     *)
(*   SpecLife    SpecInit with failing socket calls, then Write and Read.  *)
(*   SpecSock    sock_connect alone, in each role.                         *)
(*   SpecQueue   SpecXfer in a run with failing verbs.                     *)
(*   SpecThreads two initialisations in two threads of one process.        *)
(*   SpecPoll    post_send and poll_completion alone, under a clock.       *)
(*   SpecSync    sock_sync_data alone: both peers run a script of          *)
(*               exchanges over the byte stream; the stream may split the  *)
(*               bytes across reads, the write may come up short, a peer   *)
(*               may close its socket.                                     *)
(*                                                                         *)
(* The C library is rdma_operations.c (src/unnamed/part_003), its header   *)
(* rdma_operations.h (the second half of src/handler.go), the Go binding   *)
(* src/handler.go.                                                         *)
(***************************************************************************)
EXTENDS Integers, Sequences, FiniteSets, TLC

VARIABLES
    pc,        \* pc[p]: where peer p's calling thread stands
    ncall,     \* ncall[p]: calls peer p's driver has completed
    chan,      \* chan[p]: the bytes of the control channel in flight towards p
    sockOpen,  \* sockOpen[p]: p's end of the control channel, see Linked
    sync,      \* sync[p]: the locals of p's running sock_sync_data call
    config,    \* config[p]: the global struct config_t of p's process
    hostLE,    \* hostLE[p]: p's host is little-endian (__BYTE_ORDER)
    faults,    \* the kinds of calls that may fail in this run, see AllFaults
    shared,    \* the global struct config_t of a process in which two threads
               \* call initRDMAConnection (SpecThreads)
    thr,       \* thr[t]: thread t of that process, see ThrNone
    runs,      \* one Write or Read call made twice, under two role labels
               \* (SpecLabel), see RunsNone
    res,       \* res[p]: p's struct resources
    qp,        \* qp[p]: the queue pair p created, as the device holds it
    log,       \* log[p]: the acquisitions and releases p has made, in order
    conn,      \* conn[p]: the locals of p's connect_qp call
    mem,       \* mem[p]: the bytes of p's registered buffer (res[p].buf)
    wq,        \* wq[p]: p's send queue, the work requests p posted that have
               \* not completed, oldest first
    cqueue,    \* cqueue[p]: the completions in p's completion queue, each with
               \* its status and the number of the call that posted its
               \* request (sr.wr_id is 0 in every request of the program)
    call,      \* call[p]: the Write or Read call p is running, and its result
    poll,      \* poll[p]: the locals of p's running poll_completion call
    now        \* the time of day, in the unit MAX_POLL_CQ_TIMEOUT is given in

\* the control channel
netVars == <<chan, sockOpen, sync>>

\* the resource set and what hangs on it
resVars == <<res, qp, log, conn>>

\* what no operation of a peer changes after the start
envVars == <<config, hostLE, faults, shared, thr, runs>>

\* the data path
dataVars == <<mem, wq, cqueue, call, poll, now>>

vars == <<pc, ncall, chan, sockOpen, sync, config, hostLE, faults, shared, thr, runs,
          res, qp, log, conn,
          mem, wq, cqueue, call, poll, now>>

Peers == {"server", "client"}

Other(p) == IF p = "server" THEN "client" ELSE "server"

PeerNo(p) == IF p = "server" THEN 1 ELSE 2

\* the kinds of calls that may fail: the socket calls of sock_connect
\* (getaddrinfo, socket, connect, bind, accept), write (returning -1 or 0),
\* write again (taking some of the bytes only), read, the verbs, and the
\* fabric (a work request completes with an error)
AllFaults == {"socket", "write", "short", "read", "verbs", "fabric"}

(***************************************************************************)
(* Bounds of the model.                                                    *)
(***************************************************************************)
\* the size of the first exchange of the SpecSync script (the script's
\* second exchange is one byte, as every barrier of the program is)
MaxXfer == 2

\* a read that returns fewer bytes than it could returns at most MaxShort of
\* them, and one sock_sync_data call meets at most MaxShort such reads; a
\* write that takes fewer bytes than it was given takes at most MaxShort of
\* them or leaves at most MaxShort of them
MaxShort == 1

\* the number of release functions that may fail in one resources_destroy
MaxReleaseFailures == 1

\* the number of Destroy calls a caller makes on one resource set after the
\* first
MaxDestroys == 2

\* the number of Write or Read calls each peer makes in SpecXfer
MaxCalls == 2

\* the number of addresses getaddrinfo may return for the server's name
MaxAddrs == 2

\* MAX_POLL_CQ_TIMEOUT, the time poll_completion waits for a completion
\* (2000 milliseconds in the program), scaled down
MAX_POLL_CQ_TIMEOUT == 2

\* the last time of day the clock of the model reaches
MaxClock == 4

\* MSG_SIZE, the size of the registered buffer (85 in the program:
\* strlen(MSG) + 6), scaled down
MSG_SIZE == 3

\* the values a byte of an uninitialised C stack variable may hold
UninitBytes == {0, 170}

(***************************************************************************)
(* Sequences of bytes.                                                     *)
(***************************************************************************)
Take(s, n) == SubSeq(s, 1, n)

Drop(s, n) == SubSeq(s, n + 1, Len(s))

Min(a, b) == IF a < b THEN a ELSE b

\* what read(fd, dst, count) leaves in dst after storing the k bytes src at
\* dst's first byte: the bytes of dst behind them are left as they were
StoreAt0(dst, src) ==
    [i \in 1..Len(dst) |-> IF i <= Len(src) THEN src[i] ELSE dst[i]]

(***************************************************************************)
(* sock_sync_data(sock, xfer_size, local_data, remote_data)                *)
(*                                                                         *)
(*     rc = write(sock, local_data, xfer_size);                            *)
(*     if (rc < xfer_size) fprintf(...); else rc = 0;                      *)
(*     while (!rc && total_read_bytes < xfer_size) {                       *)
(*         read_bytes = read(sock, remote_data, xfer_size);                *)
(*         if (read_bytes > 0) total_read_bytes += read_bytes;             *)
(*         else rc = read_bytes;                                           *)
(*     }                                                                   *)
(*     return rc;                                                          *)
(*                                                                         *)
(* One action per system call.  sync[p].state is the position in the       *)
(* function: "idle" (no call), "write" (before the write), "read" (at the  *)
(* loop test), "done" (returned, rc is the result).  wrote (the write's   *)
(* result), didRead (a read was made) and eof (a read returned 0) record   *)
(* what the system calls did, for the properties.                          *)
(***************************************************************************)
SyncIdle ==
    [state |-> "idle", xfer_size |-> 0, local_data |-> <<>>, remote_data |-> <<>>,
     rc |-> 0, read_bytes |-> 0, total_read_bytes |-> 0,
     wrote |-> 0, didRead |-> FALSE, eof |-> FALSE, nshort |-> 0]

\* the entry of sock_sync_data: the locals as the declarations leave them
SyncEnter(xfer_size, local_data, remote_data) ==
    [state |-> "write", xfer_size |-> xfer_size, local_data |-> local_data,
     remote_data |-> remote_data,
     rc |-> 0, read_bytes |-> 0, total_read_bytes |-> 0,
     wrote |-> 0, didRead |-> FALSE, eof |-> FALSE, nshort |-> 0]

\* the values write(sock, local_data, xfer_size) may return: -1 (an error),
\* or the number of bytes it took, 0..xfer_size (all of them, at most
\* MaxShort of them, or all but at most MaxShort)
WriteResults(xfer_size) ==
    {xfer_size}
    \cup (IF "write" \in faults THEN {-1, 0} ELSE {})
    \cup (IF "short" \in faults
          THEN {w \in 1..(xfer_size - 1) : w <= MaxShort \/ xfer_size - w <= MaxShort}
          ELSE {})

\* rc after the write: "if (rc < xfer_size) fprintf(...); else rc = 0;"
RcAfterWrite(w, xfer_size) == IF w < xfer_size THEN w ELSE 0

\* the loop test "while (!rc && total_read_bytes < xfer_size)"
LoopTest(s) == s.rc = 0 /\ s.total_read_bytes < s.xfer_size

\* the count read() is called with: "read(sock, remote_data, xfer_size)"
ReadCount(s) == s.xfer_size

\* the numbers of bytes a read() of count bytes may return when avail bytes
\* have been sent: all it can take, or fewer (the rest has not arrived yet)
ReadResults(avail, count, nshort) ==
    {n \in 1..Min(avail, count) :
        n = Min(avail, count) \/ (n <= MaxShort /\ nshort < MaxShort)}

\* the locals after read() returned n bytes (data), 0 (end of stream) or -1
AfterRead(s, n, data) ==
    [s EXCEPT !.read_bytes = n,
              !.remote_data = IF n > 0 THEN StoreAt0(s.remote_data, data) ELSE @,
              !.total_read_bytes = IF n > 0 THEN @ + n ELSE @,
              !.rc = IF n > 0 THEN @ ELSE n,
              !.didRead = TRUE,
              !.eof = (@ \/ n = 0)]

(* sockOpen[p] is "none" (no connection made or accepted yet), "open" (p   *)
(* holds its end of the connection), "closed" (p closed it), and for the   *)
(* client, whose sock_connect may make several connections of which the    *)
(* server accepts the first: "stray" (the client holds a later connection, *)
(* the accepted one is open and held by no variable) and "lost" (the       *)
(* client holds none, the accepted one is still open).                     *)
Linked == sockOpen["client"] \notin {"stray", "lost"}

\* the write(): w bytes of local_data join the stream towards the peer, when
\* the two sockets are the ends of one connection.  When the peer has closed
\* its socket the write is accepted and its bytes reach nobody, or it fails
\* (EPIPE).
SockSyncWrite(p) ==
    /\ sync[p].state = "write"
    /\ \E w \in WriteResults(sync[p].xfer_size)
                  \cup (IF sockOpen[Other(p)] = "closed" THEN {-1} ELSE {}) :
          /\ chan' = [chan EXCEPT ![Other(p)] =
                         IF w > 0 /\ Linked /\ sockOpen[Other(p)] # "closed"
                         THEN @ \o Take(sync[p].local_data, w)
                         ELSE @]
          /\ sync' = [sync EXCEPT ![p].wrote = w,
                                  ![p].rc = RcAfterWrite(w, sync[p].xfer_size),
                                  ![p].state = "read"]
    /\ UNCHANGED <<pc, ncall, sockOpen, envVars, resVars, dataVars>>

\* one pass of the loop whose read() returns data: n >= 1 bytes of those that
\* have been sent, at most the count asked for
SockSyncReadData(p) ==
    /\ sync[p].state = "read"
    /\ LoopTest(sync[p])
    /\ \E n \in ReadResults(Len(chan[p]), ReadCount(sync[p]), sync[p].nshort) :
          /\ sync' = [sync EXCEPT ![p] =
                      [AfterRead(@, n, Take(chan[p], n)) EXCEPT
                          !.nshort = IF n < Min(Len(chan[p]), ReadCount(sync[p]))
                                     THEN @ + 1 ELSE @]]
          /\ chan' = [chan EXCEPT ![p] = Drop(@, n)]
    /\ UNCHANGED <<pc, ncall, sockOpen, envVars, resVars, dataVars>>

\* one pass of the loop whose read() returns 0: the peer has closed its socket
\* and every byte it sent has been read
SockSyncReadEof(p) ==
    /\ sync[p].state = "read"
    /\ LoopTest(sync[p])
    /\ chan[p] = <<>>
    /\ sockOpen[Other(p)] = "closed"
    /\ sync' = [sync EXCEPT ![p] = AfterRead(@, 0, <<>>)]
    /\ UNCHANGED <<pc, ncall, chan, sockOpen, envVars, resVars, dataVars>>

\* one pass of the loop whose read() fails (returns -1)
SockSyncReadError(p) ==
    /\ "read" \in faults
    /\ sync[p].state = "read"
    /\ LoopTest(sync[p])
    /\ sync' = [sync EXCEPT ![p] = AfterRead(@, -1, <<>>)]
    /\ UNCHANGED <<pc, ncall, chan, sockOpen, envVars, resVars, dataVars>>

\* the loop test fails: "return rc"
SockSyncReturn(p) ==
    /\ sync[p].state = "read"
    /\ ~LoopTest(sync[p])
    /\ sync' = [sync EXCEPT ![p].state = "done"]
    /\ UNCHANGED <<pc, ncall, chan, sockOpen, envVars, resVars, dataVars>>

(***************************************************************************)
(* struct resources and the acquisition log.                               *)
(*                                                                         *)
(* A handle field is 0 (NULL) or 1 (a live handle); sock is a descriptor   *)
(* (>= 0) or a negative value.  log[p] lists what p called, in order:      *)
(* Acq(x) when x was obtained, Rel(x) when x's release function was called *)
(* (ibv_destroy_qp, ibv_dereg_mr, free, ibv_destroy_cq, ibv_dealloc_pd,    *)
(* ibv_close_device, ibv_free_device_list), Open(k) when the k-th          *)
(* descriptor of the process was opened (socket, accept), Close(k) when    *)
(* close was called on it.                                                 *)
(***************************************************************************)
HandleFields == <<"qp", "mr", "buf", "cq", "pd", "ib_ctx">>

Acq(x) == <<"acq", x, 0>>

Rel(x) == <<"rel", x, 0>>

Open(k) == <<"acq", "sock", k>>

Close(k) == <<"rel", "sock", k>>

\* the descriptor socket() or accept() returns when it is the k-th the
\* process opens (0, 1 and 2 are taken; the program tests a descriptor's
\* sign only), and back
Descriptor(k) == k + 2

Instance(fd) == fd - 2

\* struct cm_con_data_t, every field as the bytes of its value, the most
\* significant first (gid: the 16 raw bytes)
ZeroBytes(n) == [i \in 1..n |-> 0]

ZeroConData ==
    [addr |-> ZeroBytes(8), rkey |-> ZeroBytes(4), qp_num |-> ZeroBytes(4),
     lid |-> ZeroBytes(2), gid |-> ZeroBytes(16)]

\* "var resources RDMAResources" in initRDMAConnection: Go's zero value
\* (resources_init is not called there, so sock starts as 0, not -1)
ResZero ==
    [sock |-> 0, ib_ctx |-> 0, pd |-> 0, cq |-> 0, qp |-> 0, mr |-> 0, buf |-> 0,
     remote_props |-> ZeroConData]

\* the queue pair as the device holds it
QpNone ==
    [state |-> "NONE", dest_qp_num |-> <<>>, dlid |-> <<>>, dgid |-> <<>>,
     is_global |-> FALSE, recv_posted |-> 0]

Count(lg, ev) == Cardinality({i \in 1..Len(lg) : lg[i] = ev})

(***************************************************************************)
(* sock_connect(servername, port).  gai is what getaddrinfo returned (0,   *)
(* or a negative EAI_ code, which sock_connect keeps in sockfd and         *)
(* returns: "use sockfd as temp storage"), addrs what happens at each      *)
(* address of the list it resolved, in order:                              *)
(*   "nosock"    socket() fails                                            *)
(*   "refused"   client: connect() fails                                   *)
(*   "nobind"    server: bind() fails                                      *)
(*   "noaccept"  server: accept() fails                                    *)
(*   "ok"        client: connect() succeeds; server: accept() returns a    *)
(*               connection                                                *)
(* The loop visits every address, whatever the earlier ones gave.          *)
(***************************************************************************)
ClientOutcomes == IF "socket" \in faults THEN {"ok", "refused", "nosock"} ELSE {"ok"}

ServerOutcomes == IF "socket" \in faults THEN {"ok", "noaccept", "nobind", "nosock"} ELSE {"ok"}

GetaddrinfoResults == IF "socket" \in faults THEN {0, -2} ELSE {0}

\* the locals at the entry: "int sockfd = -1; int listenfd = 0;", and what
\* the call has done: nfd the sockets it has opened, log its opens and
\* closes, accepts the connections it has accepted, out whether it has left
\* the loop by goto
SockConnectEnter ==
    [sockfd |-> -1, listenfd |-> 0, nfd |-> 0, log |-> <<>>, out |-> FALSE,
     accepts |-> 0]

\* one pass of "for (iterator = resolved_addr; iterator; ...)"
SockConnectAddr(st, servername, outcome) ==
    IF outcome = "nosock"
    THEN \* "sockfd = socket(...)" is negative: the pass does nothing more
         [st EXCEPT !.sockfd = -1]
    ELSE LET k == st.nfd + 1
             opened == [st EXCEPT !.sockfd = Descriptor(k), !.nfd = k,
                                  !.log = @ \o <<Open(k)>>]
         IN IF servername # ""
            THEN IF outcome = "ok"
                 THEN opened
                 ELSE \* "close(sockfd); sockfd = -1;"
                      [opened EXCEPT !.sockfd = -1, !.log = @ \o <<Close(k)>>]
            ELSE LET listening == [opened EXCEPT !.listenfd = Descriptor(k),
                                                 !.sockfd = -1]
                 IN CASE outcome = "nobind" ->
                            \* "goto sock_connect_exit;"
                            [listening EXCEPT !.out = TRUE]
                      [] outcome = "noaccept" ->
                            listening
                      [] OTHER ->
                            \* "sockfd = accept(listenfd, NULL, 0);"
                            [listening EXCEPT !.sockfd = Descriptor(k + 1),
                                              !.nfd = k + 1,
                                              !.accepts = @ + 1,
                                              !.log = @ \o <<Open(k + 1)>>]

RECURSIVE SockConnectLoop(_, _, _, _)
SockConnectLoop(st, servername, addrs, i) ==
    IF i > Len(addrs) \/ st.out THEN st
    ELSE SockConnectLoop(SockConnectAddr(st, servername, addrs[i]),
                         servername, addrs, i + 1)

\* "sock_connect_exit: if (listenfd) close(listenfd); ... return sockfd;"
SockConnectExit(st) ==
    IF st.listenfd # 0
    THEN [st EXCEPT !.log = @ \o <<Close(Instance(st.listenfd))>>]
    ELSE st

\* the whole call: its result is the field sockfd
SockConnectRun(servername, gai, addrs) ==
    IF gai < 0
    THEN SockConnectExit([SockConnectEnter EXCEPT !.sockfd = gai])
    ELSE SockConnectExit(SockConnectLoop(SockConnectEnter, servername, addrs, 1))

\* the connections a client's sock_connect made: one per "ok"
Connects(addrs) == Cardinality({i \in 1..Len(addrs) : addrs[i] = "ok"})

(***************************************************************************)
(* resources_create(res).  CreateSteps are its steps in order; failAt is   *)
(* the step behind sock_connect that fails (0: none), sc the result of     *)
(* sock_connect.  st holds res, the local dev_list, rc and the calls made. *)
(***************************************************************************)
CreateSteps ==
    <<"sock", "dev_list", "num_devices", "find_dev", "ib_ctx", "query_port",
      "pd", "cq", "buf", "mr", "qp">>

\* a step that succeeds
StepSucceeds(st, name, sc) ==
    CASE name = "sock" ->
            \* "res->sock = sock_connect(...)"
            [st EXCEPT !.res.sock = sc.sockfd, !.log = @ \o sc.log]
      [] name = "dev_list" ->
            [st EXCEPT !.dev_list = 1, !.log = @ \o <<Acq("dev_list")>>]
      [] name = "ib_ctx" ->
            \* ibv_open_device, then "ibv_free_device_list(dev_list);
            \* dev_list = NULL;"
            [st EXCEPT !.res.ib_ctx = 1, !.dev_list = 0,
                       !.log = @ \o <<Acq("ib_ctx"), Rel("dev_list")>>]
      [] name \in {"pd", "cq", "buf", "mr", "qp"} ->
            [st EXCEPT !.res[name] = 1, !.log = @ \o <<Acq(name)>>]
      [] OTHER -> st

\* a step that fails: "rc = 1; goto resources_create_exit;" (at the socket
\* step "res->sock = sock_connect(...); if (res->sock < 0) { rc = -1; goto
\* resources_create_exit; }")
StepFails(st, name, sc) ==
    IF name = "sock"
    THEN [st EXCEPT !.res.sock = sc.sockfd, !.log = @ \o sc.log, !.rc = -1]
    ELSE [st EXCEPT !.rc = 1]

\* a resources_create that does not test what sock_connect returned
RECURSIVE CreateFromAnySock(_, _, _, _)
CreateFromAnySock(st, k, failAt, sc) ==
    IF k > Len(CreateSteps) THEN st
    ELSE IF k = failAt
         THEN StepFails(st, CreateSteps[k], sc)
    ELSE CreateFromAnySock(StepSucceeds(st, CreateSteps[k], sc), k + 1, failAt, sc)

RECURSIVE CreateFrom(_, _, _, _)
CreateFrom(st, k, failAt, sc) ==
    IF k > Len(CreateSteps) THEN st
    ELSE IF k = failAt \/ (CreateSteps[k] = "sock" /\ sc.sockfd < 0)
         THEN StepFails(st, CreateSteps[k], sc)
    ELSE CreateFrom(StepSucceeds(st, CreateSteps[k], sc), k + 1, failAt, sc)

\* "if (res->x) { release(res->x); res->x = NULL; }" for the handle fields
\* from the k-th on, in the order of HandleFields
RECURSIVE CleanupHandles(_, _)
CleanupHandles(st, k) ==
    IF k > Len(HandleFields) THEN st
    ELSE LET f == HandleFields[k]
         IN CleanupHandles(
                IF st.res[f] # 0
                THEN [st EXCEPT !.res[f] = 0, !.log = @ \o <<Rel(f)>>]
                ELSE st,
                k + 1)

\* "if (dev_list) { ibv_free_device_list(dev_list); dev_list = NULL; }"
CleanupDevList(st) ==
    IF st.dev_list # 0
    THEN [st EXCEPT !.dev_list = 0, !.log = @ \o <<Rel("dev_list")>>]
    ELSE st

\* a cleanup that closes the socket and leaves res->sock as it is
CleanupSockKeepsDescriptor(st) ==
    IF st.res.sock >= 0
    THEN [st EXCEPT !.log = @ \o <<Close(Instance(st.res.sock))>>]
    ELSE st

\* "if (res->sock >= 0) { close(res->sock); res->sock = -1; }"
CleanupSock(st) ==
    IF st.res.sock >= 0
    THEN [st EXCEPT !.res.sock = -1, !.log = @ \o <<Close(Instance(st.res.sock))>>]
    ELSE st

\* the block at resources_create_exit
ResourcesCreateCleanup(st) ==
    IF st.rc # 0 THEN CleanupSock(CleanupDevList(CleanupHandles(st, 1))) ELSE st

\* the whole call on the resource set r
ResourcesCreateRun(r, failAt, sc) ==
    ResourcesCreateCleanup(
        CreateFrom([res |-> r, dev_list |-> 0, rc |-> 0, log |-> <<>>],
                   1, failAt, sc))

(***************************************************************************)
(* The device resources_create selects.  list is what ibv_get_device_list  *)
(* returned, the names of the devices in order; configured is              *)
(* config.dev_name at the entry (NULL is the empty string); ib_dev is the  *)
(* place in list of the device selected, 0 for NULL.                       *)
(***************************************************************************)
DevNone == [list |-> <<>>, configured |-> "", ib_dev |-> 0]

\* the names a device may have
DevNames == {"mlx5_0", "mlx5_1"}

\* the most devices a host holds
MaxDevices == 2

DevLists == UNION {[1..n -> DevNames] : n \in 0..MaxDevices}

\* a selection that takes the first device whatever name is configured
RECURSIVE FindFirstDevice(_, _, _)
FindFirstDevice(dev_name, list, i) ==
    IF i > Len(list) THEN [dev_name |-> dev_name, ib_dev |-> 0]
    ELSE [dev_name |-> IF dev_name = "" THEN list[i] ELSE dev_name, ib_dev |-> i]

\* "for (i = 0; i < num_devices; i++) { if (!config.dev_name)
\* config.dev_name = strdup(ibv_get_device_name(dev_list[i])); if
\* (!strcmp(ibv_get_device_name(dev_list[i]), config.dev_name)) { ib_dev =
\* dev_list[i]; break; } }", from the i-th device on: config.dev_name and
\* ib_dev behind the loop
RECURSIVE FindDevice(_, _, _)
FindDevice(dev_name, list, i) ==
    IF i > Len(list) THEN [dev_name |-> dev_name, ib_dev |-> 0]
    ELSE LET name == IF dev_name = "" THEN list[i] ELSE dev_name
         IN IF list[i] = name THEN [dev_name |-> name, ib_dev |-> i]
            ELSE FindDevice(name, list, i + 1)

\* the place of a step in CreateSteps
StepNo(name) == CHOOSE k \in 1..Len(CreateSteps) : CreateSteps[k] = name

\* the step of resources_create at which the devices make it fail (0: none):
\* "if (!num_devices) { rc = 1; goto resources_create_exit; }" and "if
\* (!ib_dev) { rc = 1; goto resources_create_exit; }"
DeviceFailure(list, ib_dev) ==
    IF Len(list) = 0 THEN StepNo("num_devices")
    ELSE IF ib_dev = 0 THEN StepNo("find_dev")
    ELSE 0

(***************************************************************************)
(* resources_destroy(res): every populated field's release function is     *)
(* called, in the order qp, mr, buf, cq, pd, ib_ctx, sock; the fields are  *)
(* left as they are.  failing is the set of releases that fail (free       *)
(* returns nothing), failed those of them that were called.                *)
(***************************************************************************)
RECURSIVE DestroyHandles(_, _, _)
DestroyHandles(st, k, failing) ==
    IF k > Len(HandleFields) THEN st
    ELSE LET f == HandleFields[k]
         IN DestroyHandles(
                IF st.res[f] # 0
                THEN [st EXCEPT !.log = @ \o <<Rel(f)>>,
                                !.rc = IF f \in failing /\ f # "buf" THEN 1 ELSE @,
                                !.failed = IF f \in failing /\ f # "buf"
                                           THEN @ \cup {f} ELSE @]
                ELSE st,
                k + 1, failing)

\* resources_destroy gives up at its last step when an earlier release failed
DestroySockStopsOnFailure(st, failing) ==
    IF st.res.sock >= 0 /\ st.rc = 0
    THEN [st EXCEPT !.log = @ \o <<Close(Instance(st.res.sock))>>,
                    !.rc = IF "sock" \in failing THEN 1 ELSE @,
                    !.failed = IF "sock" \in failing THEN @ \cup {"sock"} ELSE @]
    ELSE st

DestroySock(st, failing) ==
    IF st.res.sock >= 0
    THEN [st EXCEPT !.log = @ \o <<Close(Instance(st.res.sock))>>,
                    !.rc = IF "sock" \in failing THEN 1 ELSE @,
                    !.failed = IF "sock" \in failing THEN @ \cup {"sock"} ELSE @]
    ELSE st

ResourcesDestroyRun(r, failing) ==
    DestroySock(DestroyHandles([res |-> r, rc |-> 0, log |-> <<>>, failed |-> {}],
                               1, failing),
                failing)

(***************************************************************************)
(* Byte order.  An unsigned integer is the tuple of the bytes of its       *)
(* value, the most significant first.  bswap_16/32/64 reverse the bytes of *)
(* the value; a little-endian host stores a value with its least           *)
(* significant byte at the lowest address.                                 *)
(***************************************************************************)
Reverse(s) == [i \in 1..Len(s) |-> s[Len(s) + 1 - i]]

\* htonll, htonl, htons on a host that is little-endian (le) or not
htonll(le, x) == IF le THEN Reverse(x) ELSE x

htonl(le, x) == IF le THEN Reverse(x) ELSE x

htons(le, x) == IF le THEN Reverse(x) ELSE x

ntohll(le, x) == IF le THEN Reverse(x) ELSE x

ntohl(le, x) == IF le THEN Reverse(x) ELSE x

ntohs(le, x) == IF le THEN Reverse(x) ELSE x

\* the bytes of an integer field in memory, lowest address first, and back
MemBytes(le, x) == IF le THEN Reverse(x) ELSE x

MemValue(le, b) == IF le THEN Reverse(b) ELSE b

\* sizeof(struct cm_con_data_t), packed
ConDataSize == 8 + 4 + 4 + 2 + 16

\* struct cm_con_data_t as the bytes sock_sync_data is handed, and back
ConDataBytes(le, d) ==
    MemBytes(le, d.addr) \o MemBytes(le, d.rkey) \o MemBytes(le, d.qp_num)
        \o MemBytes(le, d.lid) \o d.gid

ConDataOfBytes(le, b) ==
    [addr |-> MemValue(le, SubSeq(b, 1, 8)),
     rkey |-> MemValue(le, SubSeq(b, 9, 12)),
     qp_num |-> MemValue(le, SubSeq(b, 13, 16)),
     lid |-> MemValue(le, SubSeq(b, 17, 18)),
     gid |-> SubSeq(b, 19, 34)]

(***************************************************************************)
(* What the device and the allocator hand to each peer.                    *)
(***************************************************************************)
\* (uintptr_t)res->buf
BufAddr(p) ==
    IF p = "server" THEN <<0, 0, 127, 16, 32, 48, 64, 80>>
    ELSE <<0, 0, 126, 17, 33, 49, 65, 81>>

\* res->mr->rkey
MrRkey(p) == IF p = "server" THEN <<0, 1, 2, 3>> ELSE <<0, 4, 5, 6>>

\* res->qp->qp_num
QpNum(p) == IF p = "server" THEN <<0, 0, 1, 7>> ELSE <<0, 0, 2, 8>>

\* res->port_attr.lid
PortLid(p) == IF p = "server" THEN <<0, 9>> ELSE <<1, 10>>

\* what ibv_query_gid returns for the configured port and index
PortGid(p) == [i \in 1..16 |-> IF i = 1 THEN 254 ELSE IF i = 16 THEN PeerNo(p) ELSE i]

(***************************************************************************)
(* connect_qp(res), one action per call it makes.  conn[p].rc is its rc,   *)
(* conn[p].local the values it encoded, conn[p].ret what                   *)
(* initRDMAConnection returned ("none", "ok": the resources and nil,       *)
(* "err": nil and an error), conn[p].destroy_rc what resources_destroy     *)
(* returned, conn[p].released the releases it called and conn[p].failed    *)
(* those of them that failed, conn[p].modify the ibv_modify_qp calls made:  *)
(* the state the queue pair was in, the state asked for, the result;       *)
(* conn[p].xchg what the sock_sync_data of the descriptors returned, once  *)
(* it has; conn[p].sock the locals of p's sock_connect call at its return; *)
(* conn[p].sizes the xfer_size of every sock_sync_data call connect_qp has *)
(* made; conn[p].dev the devices p's resources_create met, see DevNone;    *)
(* conn[p].again the number of Destroy calls made after the first.         *)
(***************************************************************************)
ConnNone ==
    [rc |-> 0, my_gid |-> ZeroBytes(16), local |-> ZeroConData, ret |-> "none",
     destroy_rc |-> 0, released |-> <<>>, failed |-> {}, modify |-> <<>>,
     xchg |-> <<>>, sock |-> SockConnectEnter, sizes |-> <<>>, dev |-> DevNone,
     again |-> 0]

\* the values ibv_query_gid may return (0, or an error)
QueryGidResults == IF "verbs" \in faults THEN {0, -1} ELSE {0}

\* the values ibv_modify_qp and ibv_post_recv may return (0, or an errno)
VerbResults == IF "verbs" \in faults THEN {0, 22} ELSE {0}

\* my_gid after "if (config.gid_idx >= 0) { ibv_query_gid(...) } else
\* fprintf(...); memset(&my_gid, 0, sizeof my_gid);": the memset follows the
\* if statement, it is not part of its else branch
MyGid(p, gid_idx) ==
    LET queried == IF gid_idx >= 0 THEN PortGid(p) ELSE ZeroBytes(16)
    IN ZeroBytes(Len(queried))

\* local_con_data, in host order and as connect_qp fills it
LocalConData(p, my_gid) ==
    [addr |-> BufAddr(p), rkey |-> MrRkey(p), qp_num |-> QpNum(p),
     lid |-> PortLid(p), gid |-> my_gid]

EncodeConData(le, d) ==
    [addr |-> htonll(le, d.addr), rkey |-> htonl(le, d.rkey),
     qp_num |-> htonl(le, d.qp_num), lid |-> htons(le, d.lid), gid |-> d.gid]

DecodeConData(le, t) ==
    [addr |-> ntohll(le, t.addr), rkey |-> ntohl(le, t.rkey),
     qp_num |-> ntohl(le, t.qp_num), lid |-> ntohs(le, t.lid), gid |-> t.gid]

\* from the entry of connect_qp to its first sock_sync_data call
ConnectQpStart(p) ==
    /\ pc[p] = "connect_qp"
    /\ \E q \in (IF config[p].gid_idx >= 0 THEN QueryGidResults ELSE {0}) :
          IF q # 0
          THEN \* "return rc;"
               /\ conn' = [conn EXCEPT ![p].rc = q]
               /\ pc' = [pc EXCEPT ![p] = "connect_ret"]
               /\ UNCHANGED sync
          ELSE LET g == MyGid(p, config[p].gid_idx)
                   d == LocalConData(p, g)
               IN /\ conn' = [conn EXCEPT ![p].my_gid = g, ![p].local = d,
                                           ![p].sizes = Append(@, ConDataSize)]
                  /\ pc' = [pc EXCEPT ![p] = "xchg_con_data"]
                  /\ \E u \in UninitBytes :
                        sync' = [sync EXCEPT ![p] =
                                    SyncEnter(ConDataSize,
                                              ConDataBytes(hostLE[p],
                                                           EncodeConData(hostLE[p], d)),
                                              [i \in 1..ConDataSize |-> u])]
    /\ UNCHANGED <<ncall, chan, sockOpen, envVars, res, qp, log, dataVars>>

\* the test of the first sock_sync_data's result
ExchangeFailed(rc) == rc < 0

\* from the return of the first sock_sync_data to modify_qp_to_init
ConnectQpAfterExchange(p) ==
    /\ pc[p] = "xchg_con_data"
    /\ sync[p].state = "done"
    /\ IF ExchangeFailed(sync[p].rc)
       THEN /\ conn' = [conn EXCEPT ![p].rc = 1, ![p].xchg = <<sync[p].rc>>]
            /\ pc' = [pc EXCEPT ![p] = "connect_ret"]
            /\ UNCHANGED res
       ELSE /\ res' = [res EXCEPT ![p].remote_props =
                          DecodeConData(hostLE[p],
                                        ConDataOfBytes(hostLE[p], sync[p].remote_data))]
            /\ pc' = [pc EXCEPT ![p] = "to_init"]
            /\ conn' = [conn EXCEPT ![p].xchg = <<sync[p].rc>>]
    /\ sync' = [sync EXCEPT ![p] = SyncIdle]
    /\ UNCHANGED <<ncall, chan, sockOpen, envVars, qp, log, dataVars>>

\* one call of ibv_modify_qp, as conn[p].modify records it
Modify(from, to, r) == [from |-> from, to |-> to, rc |-> r]

\* modify_qp_to_init(res->qp)
ModifyQpToInit(p) ==
    /\ pc[p] = "to_init"
    /\ \E r \in VerbResults :
          /\ r = 0 => qp[p].state = "RESET"
          /\ qp' = IF r = 0 THEN [qp EXCEPT ![p].state = "INIT"] ELSE qp
          /\ conn' = [conn EXCEPT ![p].rc = r,
                                   ![p].modify = Append(@, Modify(qp[p].state, "INIT", r))]
          /\ pc' = [pc EXCEPT ![p] =
                       IF r # 0 THEN "connect_ret"
                       ELSE IF config[p].server_name # "" THEN "post_receive"
                       ELSE "to_rtr"]
    /\ UNCHANGED <<ncall, netVars, envVars, res, log, dataVars>>

\* "if (config.server_name) rc = post_receive(res);"
PostReceive(p) ==
    /\ pc[p] = "post_receive"
    /\ \E r \in VerbResults :
          /\ qp' = IF r = 0 THEN [qp EXCEPT ![p].recv_posted = @ + 1] ELSE qp
          /\ conn' = [conn EXCEPT ![p].rc = r]
          /\ pc' = [pc EXCEPT ![p] = IF r # 0 THEN "connect_ret" ELSE "to_rtr"]
    /\ UNCHANGED <<ncall, netVars, envVars, res, log, dataVars>>

\* a connect_qp that goes on to modify_qp_to_rts whatever modify_qp_to_rtr
\* returned
ModifyQpToRtrGoesOn(p) ==
    /\ pc[p] = "to_rtr"
    /\ \E r \in VerbResults :
          /\ r = 0 => qp[p].state = "INIT"
          /\ qp' = IF r = 0 THEN [qp EXCEPT ![p].state = "RTR"] ELSE qp
          /\ conn' = [conn EXCEPT ![p].rc = r,
                                   ![p].modify = Append(@, Modify(qp[p].state, "RTR", r))]
          /\ pc' = [pc EXCEPT ![p] = "to_rts"]
    /\ UNCHANGED <<ncall, netVars, envVars, res, log, dataVars>>

\* modify_qp_to_rtr(res->qp, remote_con_data.qp_num, remote_con_data.lid,
\*                  remote_con_data.gid)
ModifyQpToRtr(p) ==
    /\ pc[p] = "to_rtr"
    /\ \E r \in VerbResults :
          /\ r = 0 => qp[p].state = "INIT"
          /\ qp' = IF r = 0
                   THEN [qp EXCEPT ![p].state = "RTR",
                                   ![p].dest_qp_num = res[p].remote_props.qp_num,
                                   ![p].dlid = res[p].remote_props.lid,
                                   ![p].is_global = (config[p].gid_idx >= 0),
                                   ![p].dgid = IF config[p].gid_idx >= 0
                                               THEN res[p].remote_props.gid ELSE @]
                   ELSE qp
          /\ conn' = [conn EXCEPT ![p].rc = r,
                                   ![p].modify = Append(@, Modify(qp[p].state, "RTR", r))]
          /\ pc' = [pc EXCEPT ![p] = IF r # 0 THEN "connect_ret" ELSE "to_rts"]
    /\ UNCHANGED <<ncall, netVars, envVars, res, log, dataVars>>

\* a connect_qp that returns after modify_qp_to_rts, without the second
\* sock_sync_data call
ModifyQpToRtsAndReturn(p) ==
    /\ pc[p] = "to_rts"
    /\ \E r \in VerbResults :
          /\ r = 0 => qp[p].state = "RTR"
          /\ qp' = IF r = 0 THEN [qp EXCEPT ![p].state = "RTS"] ELSE qp
          /\ conn' = [conn EXCEPT ![p].rc = r,
                                   ![p].modify = Append(@, Modify(qp[p].state, "RTS", r))]
          /\ pc' = [pc EXCEPT ![p] = "connect_ret"]
    /\ UNCHANGED <<ncall, chan, sockOpen, sync, envVars, res, log, dataVars>>

\* modify_qp_to_rts(res->qp) and, when it succeeds, the entry of the second
\* sock_sync_data call: sock_sync_data(res->sock, 1, "Q", &temp_char)
ModifyQpToRts(p) ==
    /\ pc[p] = "to_rts"
    /\ \E r \in VerbResults, u \in UninitBytes :
          /\ r = 0 => qp[p].state = "RTR"
          /\ qp' = IF r = 0 THEN [qp EXCEPT ![p].state = "RTS"] ELSE qp
          /\ conn' = [conn EXCEPT ![p].rc = r,
                                   ![p].modify = Append(@, Modify(qp[p].state, "RTS", r)),
                                   ![p].sizes = IF r = 0 THEN Append(@, 1) ELSE @]
          /\ pc' = [pc EXCEPT ![p] = IF r # 0 THEN "connect_ret" ELSE "xchg_rts"]
          /\ sync' = IF r = 0 THEN [sync EXCEPT ![p] = SyncEnter(1, <<81>>, <<u>>)]
                     ELSE sync
    /\ UNCHANGED <<ncall, chan, sockOpen, envVars, res, log, dataVars>>

\* "if (sock_sync_data(res->sock, 1, "Q", &temp_char)) rc = 1;" and the
\* return of connect_qp
ConnectQpBarrier(p) ==
    /\ pc[p] = "xchg_rts"
    /\ sync[p].state = "done"
    /\ conn' = [conn EXCEPT ![p].rc = IF sync[p].rc # 0 THEN 1 ELSE @]
    /\ pc' = [pc EXCEPT ![p] = "connect_ret"]
    /\ sync' = [sync EXCEPT ![p] = SyncIdle]
    /\ UNCHANGED <<ncall, chan, sockOpen, envVars, res, qp, log, dataVars>>

(***************************************************************************)
(* initRDMAConnection(ip, port) of package rdmahandler (InitServer passes  *)
(* the empty ip).                                                          *)
(***************************************************************************)
\* config after "C.config.server_name = serverAddr" (client) or "= nil"
\* (server, modelled as the empty string), dev_name NULL (the empty string);
\* tcp_port and ib_port play no part here
ConfigOf(p, gid_idx) ==
    [server_name |-> IF p = "client" THEN "10.0.0.1" ELSE "", gid_idx |-> gid_idx,
     dev_name |-> ""]

(***************************************************************************)
(* Two calls of initRDMAConnection in two threads of one process.  config  *)
(* is one object of the C library (part_003:2-7), so both calls write and  *)
(* read the same server_name and tcp_port; nothing orders the accesses of  *)
(* one thread against those of the other.  Thread "server" runs            *)
(* InitServer(port), thread "client" InitClient(ip, port).                 *)
(***************************************************************************)
\* "19875, /* tcp_port */"
DefaultTcpPort == 19875

\* config as the library initialises it (NULL is the empty string)
ConfigDefault == [server_name |-> "", tcp_port |-> DefaultTcpPort]

\* the ports an initialisation may be given
Ports == {DefaultTcpPort, DefaultTcpPort + 1}

\* a thread that has not called: ip and port are the arguments of its call;
\* create_role is the server_name the test of resources_create read,
\* sock_name and sock_port the arguments it passed to sock_connect, qp_role
\* the server_name the test of connect_qp read ("unread" and 0: not yet)
ThrNone ==
    [pc |-> "none", ip |-> "", port |-> 0, create_role |-> "unread",
     sock_name |-> "unread", sock_port |-> 0, qp_role |-> "unread"]

\* the arguments of thread t's call
ThrCall(t, port) ==
    [ThrNone EXCEPT !.pc = "set_name", !.port = port,
                    !.ip = IF t = "client" THEN "10.0.0.1" ELSE ""]

\* "if ip != \"\" { C.config.server_name = serverAddr } else {
\* C.config.server_name = nil }"
ThrSetServerName(t) ==
    /\ thr[t].pc = "set_name"
    /\ shared' = [shared EXCEPT !.server_name = thr[t].ip]
    /\ thr' = [thr EXCEPT ![t].pc = "set_port"]
    /\ UNCHANGED <<pc, ncall, netVars, config, hostLE, faults, runs, resVars, dataVars>>

\* "C.config.tcp_port = C.uint32_t(port)"
ThrSetTcpPort(t) ==
    /\ thr[t].pc = "set_port"
    /\ shared' = [shared EXCEPT !.tcp_port = thr[t].port]
    /\ thr' = [thr EXCEPT ![t].pc = "create"]
    /\ UNCHANGED <<pc, ncall, netVars, config, hostLE, faults, runs, resVars, dataVars>>

\* resources_create: "if (config.server_name)"
ThrCreateTest(t) ==
    /\ thr[t].pc = "create"
    /\ thr' = [thr EXCEPT ![t].pc = "sock_connect",
                          ![t].create_role = shared.server_name]
    /\ UNCHANGED <<pc, ncall, netVars, config, hostLE, faults, shared, runs, resVars, dataVars>>

\* resources_create: "res->sock = sock_connect(config.server_name,
\* config.tcp_port)" when the test found a name, "res->sock =
\* sock_connect(NULL, config.tcp_port)" when it did not
ThrSockConnect(t) ==
    /\ thr[t].pc = "sock_connect"
    /\ thr' = [thr EXCEPT ![t].pc = "connect_qp",
                          ![t].sock_name = IF thr[t].create_role # ""
                                           THEN shared.server_name ELSE "",
                          ![t].sock_port = shared.tcp_port]
    /\ UNCHANGED <<pc, ncall, netVars, config, hostLE, faults, shared, runs, resVars, dataVars>>

\* connect_qp: "if (config.server_name)" before post_receive
ThrConnectQpTest(t) ==
    /\ thr[t].pc = "connect_qp"
    /\ thr' = [thr EXCEPT ![t].pc = "returned", ![t].qp_role = shared.server_name]
    /\ UNCHANGED <<pc, ncall, netVars, config, hostLE, faults, shared, runs, resVars, dataVars>>

\* no Write or Read call yet: op is the method, contents its argument, copied
\* the bytes strcpy has stored, err and value what it returned, posted_in the
\* states the two queue pairs were in when its work request was posted,
\* steps the steps it has made and how each went, buf the bytes of the
\* buffer when it returned, sizes the xfer_size of every sock_sync_data call
\* it has made
CallNone ==
    [op |-> "none", contents |-> <<>>, copied |-> 0, err |-> "none", value |-> <<>>,
     posted_in |-> <<>>, steps |-> <<>>, buf |-> <<>>, sizes |-> <<>>]

\* the sets of release functions that may fail in one resources_destroy
ReleaseFailures ==
    {F \in SUBSET {"qp", "mr", "cq", "pd", "ib_ctx", "sock"} :
        Cardinality(F) <= MaxReleaseFailures}

\* the step of resources_create behind sock_connect that fails (0: none)
CreateFailures == IF "verbs" \in faults THEN {0} \cup (2..Len(CreateSteps)) ELSE {0}

\* the lists of n outcomes, one per address, n = 1..max
AddrLists(outcomes, max) == UNION {[1..n -> outcomes] : n \in 1..max}

\* what sock_connect may meet.  A NULL node with AI_PASSIVE and AF_INET
\* resolves to the wildcard address alone; the server's name resolves to
\* 1..MaxAddrs addresses (to one when no call fails).
SockConnectInputs(p) ==
    {[gai |-> 0, addrs |-> a] :
        a \in IF config[p].server_name = "" THEN AddrLists(ServerOutcomes, 1)
              ELSE AddrLists(ClientOutcomes, IF "socket" \in faults THEN MaxAddrs ELSE 1)}
    \cup {[gai |-> g, addrs |-> <<>>] : g \in GetaddrinfoResults \ {0}}

\* what a sock_connect called on its own may meet: in either role a list
\* of 1..MaxAddrs addresses
SockConnectAloneInputs(p) ==
    {[gai |-> 0, addrs |-> a] :
        a \in AddrLists(IF config[p].server_name = "" THEN ServerOutcomes
                        ELSE ClientOutcomes, MaxAddrs)}
    \cup {[gai |-> g, addrs |-> <<>>] : g \in GetaddrinfoResults \ {0}}

\* p's end of the control channel after resources_create
SockAfterCreate(p, was, in, sockfd, rc) ==
    IF config[p].server_name = ""
    THEN IF rc = 0 THEN "open" ELSE "closed"
    ELSE CASE Connects(in.addrs) = 0 -> was
           [] Connects(in.addrs) = 1 /\ sockfd >= 0 ->
                 IF rc = 0 THEN "open" ELSE "closed"
           [] OTHER -> IF rc = 0 THEN "stray" ELSE "lost"

\* a caller of the C library that calls sock_connect(config.server_name,
\* config.tcp_port) and keeps the result in res.sock, as resources_create
\* does first
SockConnect(p) ==
    /\ pc[p] = "start"
    /\ \E in \in SockConnectAloneInputs(p) :
          LET sc == SockConnectRun(config[p].server_name, in.gai, in.addrs)
          IN /\ res' = [res EXCEPT ![p].sock = sc.sockfd]
             /\ log' = [log EXCEPT ![p] = @ \o sc.log]
             /\ conn' = [conn EXCEPT ![p].sock = sc]
             /\ sockOpen' = [sockOpen EXCEPT ![p] =
                                SockAfterCreate(p, @, in, sc.sockfd,
                                                IF sc.sockfd < 0 THEN 1 ELSE 0)]
    /\ pc' = [pc EXCEPT ![p] = "sock_returned"]
    /\ UNCHANGED <<ncall, chan, sync, envVars, qp, dataVars>>

\* a caller of the C library that calls resources_create on a host whose
\* devices are conn[p].dev.list, with config.dev_name as it stands; the
\* control channel connects
ResourcesCreateOnDevices(p) ==
    /\ pc[p] = "start"
    /\ LET sel == FindDevice(config[p].dev_name, conn[p].dev.list, 1)
           sc == SockConnectRun(config[p].server_name, 0, <<"ok">>)
           st == ResourcesCreateRun(res[p], DeviceFailure(conn[p].dev.list, sel.ib_dev), sc)
       IN /\ config' = [config EXCEPT ![p].dev_name =
                           IF Len(conn[p].dev.list) = 0 THEN @ ELSE sel.dev_name]
          /\ conn' = [conn EXCEPT ![p].dev.ib_dev = sel.ib_dev,
                                   ![p].sock = sc,
                                   ![p].ret = IF st.rc # 0 THEN "err" ELSE @]
          /\ res' = [res EXCEPT ![p] = st.res]
          /\ log' = [log EXCEPT ![p] = @ \o st.log]
          /\ qp' = [qp EXCEPT ![p] =
                       IF st.res.qp # 0 THEN [QpNone EXCEPT !.state = "RESET"]
                       ELSE QpNone]
          /\ sockOpen' = [sockOpen EXCEPT ![p] = IF st.rc = 0 THEN "open" ELSE "closed"]
          /\ pc' = [pc EXCEPT ![p] = IF st.rc # 0 THEN "create_failed" ELSE "connect_qp"]
    /\ UNCHANGED <<ncall, chan, sync, hostLE, faults, shared, thr, runs, dataVars>>

\* "if C.resources_create(&resources.res) != 0 { return nil, error }".
\* accept returns a connection only once the client has made one; connect
\* succeeds only while the server has not given up.
InitResourcesCreate(p) ==
    /\ pc[p] = "start"
    /\ \E failAt \in CreateFailures, in \in SockConnectInputs(p) :
          /\ IF config[p].server_name = ""
             THEN "ok" \in {in.addrs[i] : i \in 1..Len(in.addrs)}
                      => sockOpen[Other(p)] # "none"
             ELSE Connects(in.addrs) > 0 => sockOpen[Other(p)] # "closed"
          /\ LET sc == SockConnectRun(config[p].server_name, in.gai, in.addrs)
                 st == ResourcesCreateRun(res[p], failAt, sc)
             IN /\ sc.sockfd < 0 => failAt = 0
                /\ res' = [res EXCEPT ![p] = st.res]
                /\ log' = [log EXCEPT ![p] = @ \o st.log]
                /\ qp' = [qp EXCEPT ![p] =
                             IF st.res.qp # 0 THEN [QpNone EXCEPT !.state = "RESET"]
                             ELSE QpNone]
                /\ sockOpen' = [sockOpen EXCEPT ![p] =
                                   SockAfterCreate(p, @, in, sc.sockfd, st.rc)]
                /\ conn' = [conn EXCEPT ![p].ret = IF st.rc # 0 THEN "err" ELSE @]
                /\ pc' = [pc EXCEPT ![p] =
                             IF st.rc # 0 THEN "create_failed" ELSE "connect_qp"]
    /\ UNCHANGED <<ncall, chan, sync, envVars, dataVars>>

\* "if C.connect_qp(&resources.res) != 0 { C.resources_destroy(...); return
\* nil, error }; return &resources, nil"
InitReturn(p) ==
    /\ pc[p] = "connect_ret"
    /\ IF conn[p].rc # 0
       THEN \E failing \in ReleaseFailures :
               LET st == ResourcesDestroyRun(res[p], failing)
               IN /\ log' = [log EXCEPT ![p] = @ \o st.log]
                  /\ conn' = [conn EXCEPT ![p].ret = "err", ![p].destroy_rc = st.rc,
                                           ![p].released = st.log,
                                           ![p].failed = st.failed]
                  /\ qp' = [qp EXCEPT ![p].state = "NONE"]
                  /\ sockOpen' = [sockOpen EXCEPT ![p] =
                                     IF @ = "stray" THEN "lost" ELSE "closed"]
                  /\ pc' = [pc EXCEPT ![p] = "connect_failed"]
       ELSE /\ conn' = [conn EXCEPT ![p].ret = "ok"]
            /\ pc' = [pc EXCEPT ![p] = "connected"]
            /\ UNCHANGED <<log, qp, sockOpen>>
    /\ UNCHANGED <<ncall, chan, sync, envVars, res, dataVars>>

\* a caller of the C library that calls resources_destroy on the resource
\* set whose resources_create failed
DestroyAfterFailedCreate(p) ==
    /\ pc[p] = "create_failed"
    /\ \E failing \in ReleaseFailures :
          LET st == ResourcesDestroyRun(res[p], failing)
          IN /\ log' = [log EXCEPT ![p] = @ \o st.log]
             /\ conn' = [conn EXCEPT ![p].destroy_rc = st.rc, ![p].released = st.log,
                                      ![p].failed = st.failed]
    /\ pc' = [pc EXCEPT ![p] = "destroyed"]
    /\ UNCHANGED <<ncall, netVars, envVars, res, qp, dataVars>>

\* a caller of the C library that calls resources_destroy on the resource
\* set resources_create filled (as main does at its end, as Destroy does)
ResourcesDestroy(p) ==
    /\ pc[p] = "connect_qp"
    /\ \E failing \in ReleaseFailures :
          LET st == ResourcesDestroyRun(res[p], failing)
          IN /\ log' = [log EXCEPT ![p] = @ \o st.log]
             /\ conn' = [conn EXCEPT ![p].destroy_rc = st.rc, ![p].released = st.log,
                                      ![p].failed = st.failed]
    /\ qp' = [qp EXCEPT ![p].state = "NONE"]
    /\ sockOpen' = [sockOpen EXCEPT ![p] = IF @ = "stray" THEN "lost" ELSE "closed"]
    /\ pc' = [pc EXCEPT ![p] = "released"]
    /\ UNCHANGED <<ncall, chan, sync, envVars, res, dataVars>>

\* Destroy called once more on a resource set resources_destroy has run on
\* (RDMAHandler.Destroy of the caller, after an earlier Destroy or after
\* the destroy(res) of package main's write): "if
\* C.resources_destroy(&res.res) != 0", on the fields as they were left
DestroyAgain(p) ==
    /\ pc[p] = "released"
    /\ conn[p].again < MaxDestroys
    /\ \E failing \in ReleaseFailures :
          LET st == ResourcesDestroyRun(res[p], failing)
          IN /\ log' = [log EXCEPT ![p] = @ \o st.log]
             /\ conn' = [conn EXCEPT ![p].destroy_rc = st.rc, ![p].released = st.log,
                                      ![p].failed = st.failed, ![p].again = @ + 1]
    /\ UNCHANGED <<pc, ncall, netVars, envVars, res, qp, dataVars>>

(***************************************************************************)
(* The data path: RDMAHandler.Write and RDMAHandler.Read.                  *)
(*                                                                         *)
(*   Write: syncData; strcpy(res.buf, contents); post_send(RDMA_WRITE);    *)
(*          poll_completion; syncData; return nil                          *)
(*   Read:  syncData; post_send(RDMA_READ); poll_completion; syncData;     *)
(*          return GoString(res.buf), nil                                  *)
(*                                                                         *)
(* A posted work request is carried out by the adapters on their own:      *)
(* the data is sampled from the source buffer (all MSG_SIZE bytes: the     *)
(* local buffer for a write, the remote one for a read), then stored in    *)
(* the target buffer, and the completion is queued.  Nothing orders these  *)
(* steps against the other peer's thread or against the other peer's work  *)
(* request.                                                                *)
(***************************************************************************)
\* "qp_init_attr.cap.max_send_wr = 1": the depth resources_create asks for
\* the send queue
max_send_wr == 1

\* "cq_size = 1": the size resources_create asks for the completion queue
cq_size == 1

\* the send work requests of p that are outstanding: posted, and their
\* completion not yet taken from the completion queue
Outstanding(p) == Len(wq[p]) + Len(cqueue[p])

\* the values ibv_post_send may return.  With max_send_wr requests
\* outstanding the queue asked for is full and the call fails with ENOMEM
\* (12), unless the adapter made the queue deeper than was asked for, as
\* ibv_create_qp may.
PostResults(p) ==
    VerbResults \cup (IF Outstanding(p) >= max_send_wr THEN {12} ELSE {})

\* the strings Write is called with: no 0 byte, shorter than MSG_SIZE - 1
PayloadBytes == {97, 98}

Payloads == UNION {[1..n -> PayloadBytes] : n \in 0..(MSG_SIZE - 2)}

\* C.GoString(res.res.buf): the bytes before the first 0 byte
GoString(b) ==
    LET zeros == {i \in 1..Len(b) : b[i] = 0}
    IN IF zeros = {} THEN b
       ELSE Take(b, (CHOOSE i \in zeros : \A j \in zeros : i <= j) - 1)

\* a step of a Write or Read call, as call[p].steps records it: what was
\* done and whether it succeeded
Step(name, ok) == [name |-> name, ok |-> ok]

\* a sock_sync_data call that returned did what a barrier is for: its byte
\* was written and the peer's byte was read
Exchanged(s) ==
    /\ s.wrote = s.xfer_size
    /\ s.total_read_bytes = s.xfer_size
    /\ s.rc = 0

\* the entry of Write(res, contents, character) or Read(res, character), up to
\* the write of the first syncData: sock_sync_data(res.sock, 1, "R", &tempChar)
XferCall(p) ==
    /\ pc[p] \in {"connected", "idle"}
    /\ ncall[p] < MaxCalls
    /\ \E op \in {"Write", "Read"}, u \in UninitBytes :
          /\ \E c \in (IF op = "Write" THEN Payloads ELSE {<<>>}) :
                call' = [call EXCEPT ![p] = [CallNone EXCEPT !.op = op, !.contents = c,
                                                             !.sizes = <<1>>]]
          /\ sync' = [sync EXCEPT ![p] = SyncEnter(1, <<82>>, <<u>>)]
    /\ pc' = [pc EXCEPT ![p] = "sync1"]
    /\ UNCHANGED <<ncall, chan, sockOpen, envVars, resVars, mem, wq, cqueue, poll, now>>

\* "if err := syncData(res); err != nil { return err }" at the start
XferAfterSync(p) ==
    /\ pc[p] = "sync1"
    /\ sync[p].state = "done"
    /\ IF sync[p].rc # 0
       THEN /\ call' = [call EXCEPT ![p].err = "sync error",
                                     ![p].buf = mem[p],
                                     ![p].steps = Append(@, Step("sync", Exchanged(sync[p])))]
            /\ pc' = [pc EXCEPT ![p] = "idle"]
            /\ ncall' = [ncall EXCEPT ![p] = @ + 1]
       ELSE /\ pc' = [pc EXCEPT ![p] =
                         IF call[p].op = "Write" THEN "strcpy" ELSE "post_send"]
            /\ call' = [call EXCEPT
                          ![p].steps = Append(@, Step("sync", Exchanged(sync[p])))]
            /\ UNCHANGED ncall
    /\ sync' = [sync EXCEPT ![p] = SyncIdle]
    /\ UNCHANGED <<chan, sockOpen, envVars, resVars, mem, wq, cqueue, poll, now>>

\* a copy of the bytes of contents that leaves the terminating 0 out
StrcpyWithoutTerminator(p) ==
    /\ pc[p] = "strcpy"
    /\ mem' = [mem EXCEPT ![p] = StoreAt0(@, call[p].contents)]
    /\ call' = [call EXCEPT ![p].copied = Len(call[p].contents),
                             ![p].steps = Append(@, Step("strcpy", TRUE))]
    /\ pc' = [pc EXCEPT ![p] = "post_send"]
    /\ UNCHANGED <<ncall, netVars, envVars, resVars, wq, cqueue, poll, now>>

\* "C.strcpy(res.res.buf, cContents)", a byte at a time: the bytes of
\* contents and the terminating 0
Strcpy(p) ==
    /\ pc[p] = "strcpy"
    /\ LET src == call[p].contents \o <<0>>
           i == call[p].copied + 1
       IN /\ mem' = [mem EXCEPT ![p][i] = src[i]]
          /\ call' = [call EXCEPT ![p].copied = i,
                                   ![p].steps = IF i = Len(src)
                                                THEN Append(@, Step("strcpy", TRUE))
                                                ELSE @]
          /\ pc' = [pc EXCEPT ![p] = IF i = Len(src) THEN "post_send" ELSE @]
    /\ UNCHANGED <<ncall, netVars, envVars, resVars, wq, cqueue, poll, now>>

\* the opcode p's call passes to post_send
PostOpcode(p) == IF call[p].op = "Write" THEN "RDMA_WRITE" ELSE "RDMA_READ"

\* a work request that covers the bytes strcpy stored
SendWrOfPayload(p) ==
    [stage |-> "posted",
     opcode |-> PostOpcode(p),
     addr |-> BufAddr(p),
     length |-> call[p].copied,
     remote_addr |-> res[p].remote_props.addr,
     rkey |-> res[p].remote_props.rkey,
     data |-> <<>>,
     call |-> ncall[p]]

\* the work request post_send builds: "sge.addr = (uintptr_t)res->buf;
\* sge.length = MSG_SIZE; ... sr.opcode = opcode; ... sr.wr.rdma.remote_addr
\* = res->remote_props.addr; sr.wr.rdma.rkey = res->remote_props.rkey;".
\* stage and data are the adapter's: how far it has got, and the bytes it
\* sampled.
SendWr(p) ==
    [stage |-> "posted",
     opcode |-> PostOpcode(p),
     addr |-> BufAddr(p),
     length |-> MSG_SIZE,
     remote_addr |-> res[p].remote_props.addr,
     rkey |-> res[p].remote_props.rkey,
     data |-> <<>>,
     call |-> ncall[p]]

\* post_send(res, opcode), opcode IBV_WR_RDMA_WRITE in Write and
\* IBV_WR_RDMA_READ in Read
PostSend(p) ==
    /\ pc[p] = "post_send"
    /\ \E r \in PostResults(p) :
          IF r # 0
          THEN /\ call' = [call EXCEPT ![p].err = "failed to post SR",
                                        ![p].buf = mem[p],
                                        ![p].steps = Append(@, Step(PostOpcode(p), FALSE))]
               /\ pc' = [pc EXCEPT ![p] = "idle"]
               /\ ncall' = [ncall EXCEPT ![p] = @ + 1]
               /\ UNCHANGED wq
          ELSE /\ qp[p].state = "RTS"
               /\ wq' = [wq EXCEPT ![p] = Append(@, SendWr(p))]
               /\ call' = [call EXCEPT ![p].posted_in =
                                <<qp["server"].state, qp["client"].state>>,
                                        ![p].steps = Append(@, Step(PostOpcode(p), TRUE))]
               /\ pc' = [pc EXCEPT ![p] = "poll"]
               /\ UNCHANGED ncall
    /\ UNCHANGED <<netVars, envVars, resVars, mem, cqueue, poll, now>>

\* the oldest work request of p names the registered buffer of the other peer
RemoteAccessOk(p) ==
    /\ Head(wq[p]).remote_addr = BufAddr(Other(p))
    /\ Head(wq[p]).rkey = MrRkey(Other(p))

\* the adapters sample the source buffer of p's oldest work request, from
\* its first byte, as many bytes as the request names
NicSample(p) ==
    /\ wq[p] # <<>>
    /\ Head(wq[p]).stage = "posted"
    /\ wq' = [wq EXCEPT ![p][1].stage = "flight",
                        ![p][1].data =
                            IF Head(wq[p]).opcode = "RDMA_WRITE"
                            THEN Take(mem[p], Head(wq[p]).length)
                            ELSE IF RemoteAccessOk(p)
                            THEN Take(mem[Other(p)], Head(wq[p]).length)
                            ELSE <<>>]
    /\ UNCHANGED <<pc, ncall, netVars, envVars, resVars, mem, cqueue, call, poll, now>>

\* the status p's oldest work request may complete with: success when it names the
\* registered buffer of the other peer, a remote access error when it does
\* not, a transport error when the fabric fails
CompletionStatuses(p) ==
    {IF RemoteAccessOk(p) THEN "IBV_WC_SUCCESS" ELSE "IBV_WC_REM_ACCESS_ERR"}
    \cup (IF "fabric" \in faults THEN {"IBV_WC_RETRY_EXC_ERR"} ELSE {})

\* the adapters store the sampled data in the target buffer of p's work
\* request, when it completes with success, and queue its completion in p's
\* completion queue
NicLand(p) ==
    /\ wq[p] # <<>>
    /\ Head(wq[p]).stage = "flight"
    /\ \E st \in CompletionStatuses(p) :
          /\ mem' = IF st # "IBV_WC_SUCCESS" THEN mem
                    ELSE IF Head(wq[p]).opcode = "RDMA_WRITE"
                    THEN [mem EXCEPT ![Other(p)] = StoreAt0(@, Head(wq[p]).data)]
                    ELSE [mem EXCEPT ![p] = StoreAt0(@, Head(wq[p]).data)]
          /\ cqueue' = [cqueue EXCEPT ![p] =
                          Append(@, [status |-> st, call |-> Head(wq[p]).call])]
    /\ wq' = [wq EXCEPT ![p] = Tail(@)]
    /\ UNCHANGED <<pc, ncall, netVars, envVars, resVars, call, poll, now>>

\* no poll_completion call: state is "idle" (no call), "loop" (in the
\* do-while loop) or "done" (returned, rc is the result)
PollIdle ==
    [state |-> "idle", start_time_msec |-> 0, cur_time_msec |-> 0, poll_result |-> 0,
     status |-> "none", rc |-> 0, took |-> -1]

\* the entry of poll_completion: "gettimeofday(&cur_time, NULL);
\* start_time_msec = ...".  A call is made while the clock of the model can
\* still run for the length of the timeout.
PollEnter(p) ==
    /\ pc[p] = "poll"
    /\ poll[p].state = "idle"
    /\ now + MAX_POLL_CQ_TIMEOUT <= MaxClock
    /\ poll' = [poll EXCEPT ![p] = [PollIdle EXCEPT !.state = "loop",
                                                    !.start_time_msec = now]]
    /\ UNCHANGED <<pc, ncall, netVars, envVars, resVars, mem, wq, cqueue, call, now>>

\* the values ibv_poll_cq(res->cq, 1, &wc) may return: the number of
\* completions it took from the queue (0 or 1), or a negative value
PollResults(p) ==
    (IF cqueue[p] # <<>> THEN {1} ELSE {0})
    \cup (IF "verbs" \in faults THEN {-1} ELSE {})

\* the test of the do-while loop, whatever the time is
PollLoopTestNoTimeout(l) == l.poll_result = 0

\* "while ((poll_result == 0) &&
\*         ((cur_time_msec - start_time_msec) < MAX_POLL_CQ_TIMEOUT))"
PollLoopTest(l) ==
    /\ l.poll_result = 0
    /\ (l.cur_time_msec - l.start_time_msec) < MAX_POLL_CQ_TIMEOUT

\* a poll_completion that does not look at the status of the completion
PollRcIgnoresStatus(poll_result, status) ==
    IF poll_result < 0 THEN 1
    ELSE IF poll_result = 0 THEN 1
    ELSE 0

\* rc behind the loop: "if (poll_result < 0) rc = 1; else if (poll_result ==
\* 0) rc = 1; else if (wc.status != IBV_WC_SUCCESS) rc = 1;"
PollRc(poll_result, status) ==
    IF poll_result < 0 THEN 1
    ELSE IF poll_result = 0 THEN 1
    ELSE IF status # "IBV_WC_SUCCESS" THEN 1
    ELSE 0

\* one pass of the loop in which ibv_poll_cq returns r: ibv_poll_cq,
\* gettimeofday, the loop test, and behind the loop the rest of the function
PollPass(p, r) ==
    /\ poll[p].state = "loop"
    /\ LET l == [poll[p] EXCEPT !.poll_result = r,
                                !.status = IF r > 0 THEN Head(cqueue[p]).status ELSE @,
                                !.took = IF r > 0 THEN Head(cqueue[p]).call ELSE @,
                                !.cur_time_msec = now]
       IN /\ poll' = [poll EXCEPT ![p] =
                        IF PollLoopTest(l) THEN l
                        ELSE [l EXCEPT !.state = "done",
                                       !.rc = PollRc(l.poll_result, l.status)]]
          /\ cqueue' = IF r > 0 THEN [cqueue EXCEPT ![p] = Tail(@)] ELSE cqueue
    /\ UNCHANGED <<pc, ncall, netVars, envVars, resVars, mem, wq, call, now>>

PollCq(p) == \E r \in PollResults(p) : PollPass(p, r)

\* the clock advances
Tick ==
    /\ now < MaxClock
    /\ now' = now + 1
    /\ UNCHANGED <<pc, ncall, netVars, envVars, resVars, mem, wq, cqueue, call, poll>>

\* a caller of poll_completion that clears res.remote_props behind it
PollCompletionClearsRemote(p) ==
    /\ pc[p] = "poll"
    /\ poll[p].state = "done"
    /\ poll' = [poll EXCEPT ![p] = PollIdle]
    /\ IF poll[p].rc # 0
       THEN /\ call' = [call EXCEPT ![p].err = "poll completion failed",
                                     ![p].buf = mem[p],
                                     ![p].steps = Append(@, Step("poll", FALSE))]
            /\ pc' = [pc EXCEPT ![p] = "idle"]
            /\ ncall' = [ncall EXCEPT ![p] = @ + 1]
            /\ UNCHANGED sync
       ELSE /\ \E u \in UninitBytes :
                  sync' = [sync EXCEPT ![p] = SyncEnter(1, <<82>>, <<u>>)]
            /\ pc' = [pc EXCEPT ![p] = "sync2"]
            /\ call' = [call EXCEPT ![p].steps = Append(@, Step("poll", TRUE)),
                                     ![p].sizes = Append(@, 1)]
            /\ UNCHANGED ncall
    /\ res' = [res EXCEPT ![p].remote_props = ZeroConData]
    /\ UNCHANGED <<chan, sockOpen, envVars, qp, log, conn, mem, wq, cqueue, now>>

\* "if C.poll_completion(&res.res) != 0 { return error }", and the write of
\* the second syncData
PollCompletion(p) ==
    /\ pc[p] = "poll"
    /\ poll[p].state = "done"
    /\ poll' = [poll EXCEPT ![p] = PollIdle]
    /\ IF poll[p].rc # 0
       THEN /\ call' = [call EXCEPT ![p].err = "poll completion failed",
                                     ![p].buf = mem[p],
                                     ![p].steps = Append(@, Step("poll", FALSE))]
            /\ pc' = [pc EXCEPT ![p] = "idle"]
            /\ ncall' = [ncall EXCEPT ![p] = @ + 1]
            /\ UNCHANGED sync
       ELSE /\ \E u \in UninitBytes :
                  sync' = [sync EXCEPT ![p] = SyncEnter(1, <<82>>, <<u>>)]
            /\ pc' = [pc EXCEPT ![p] = "sync2"]
            /\ call' = [call EXCEPT ![p].steps = Append(@, Step("poll", TRUE)),
                                     ![p].sizes = Append(@, 1)]
            /\ UNCHANGED ncall
    /\ UNCHANGED <<chan, sockOpen, envVars, resVars, mem, wq, cqueue, now>>

\* "if err := syncData(res); err != nil { return err }" at the end, and the
\* return: nil from Write, C.GoString(res.res.buf), nil from Read
XferReturn(p) ==
    /\ pc[p] = "sync2"
    /\ sync[p].state = "done"
    /\ call' = [call EXCEPT
                  ![p].err = IF sync[p].rc # 0 THEN "sync error" ELSE "nil",
                  ![p].value = IF sync[p].rc = 0 /\ call[p].op = "Read"
                               THEN GoString(mem[p]) ELSE <<>>,
                  ![p].buf = mem[p],
                  ![p].steps = Append(@, Step("sync", Exchanged(sync[p])))]
    /\ sync' = [sync EXCEPT ![p] = SyncIdle]
    /\ pc' = [pc EXCEPT ![p] = "idle"]
    /\ ncall' = [ncall EXCEPT ![p] = @ + 1]
    /\ UNCHANGED <<chan, sockOpen, envVars, resVars, mem, wq, cqueue, poll, now>>

(***************************************************************************)
(* Write and Read as functions of their arguments and of what the calls    *)
(* they make return.  o names the results of one call: o.sync1 and o.sync2 *)
(* what sock_sync_data returns in the first and second syncData, o.post    *)
(* what post_send returns, o.poll what poll_completion returns, o.buf the  *)
(* bytes of res.buf when Read returns.  The result: steps, the calls made  *)
(* and the buffer updates, in order; ok, whether the error returned is     *)
(* nil; text, the text of the error; value, the string Read returns.       *)
(***************************************************************************)
\* the role labels a caller may pass
Labels == {"client", "server", "peer"}

Outcomes ==
    [sync1 : {0, -1}, post : {0, 22}, poll : {0, 1}, sync2 : {0, -1},
     buf : {ZeroBytes(MSG_SIZE), [i \in 1..MSG_SIZE |-> IF i = 1 THEN 97 ELSE 0]}]

RunResult(steps, ok, text, value) ==
    [steps |-> steps, ok |-> ok, text |-> text, value |-> value]

\* a Write that leaves out the second syncData when its label is "server"
WriteRunByRole(contents, character, o) ==
    LET copy == <<"strcpy", contents>>
    IN  IF o.sync1 # 0
        THEN RunResult(<<"sync">>, FALSE, <<"sync error">>, <<>>)
        ELSE IF o.post # 0
        THEN RunResult(<<"sync", copy, "RDMA_WRITE">>, FALSE,
                       <<character, ": failed to post SR">>, <<>>)
        ELSE IF o.poll # 0
        THEN RunResult(<<"sync", copy, "RDMA_WRITE", "poll">>, FALSE,
                       <<character, ": poll completion failed">>, <<>>)
        ELSE IF character = "server"
        THEN RunResult(<<"sync", copy, "RDMA_WRITE", "poll">>, TRUE, <<>>, <<>>)
        ELSE IF o.sync2 # 0
        THEN RunResult(<<"sync", copy, "RDMA_WRITE", "poll", "sync">>, FALSE,
                       <<"sync error">>, <<>>)
        ELSE RunResult(<<"sync", copy, "RDMA_WRITE", "poll", "sync">>, TRUE, <<>>, <<>>)

\* RDMAHandler.Write(res, contents, character)
WriteRun(contents, character, o) ==
    LET copy == <<"strcpy", contents>>
    IN  IF o.sync1 # 0
        THEN RunResult(<<"sync">>, FALSE, <<"sync error">>, <<>>)
        ELSE IF o.post # 0
        THEN RunResult(<<"sync", copy, "RDMA_WRITE">>, FALSE,
                       <<character, ": failed to post SR">>, <<>>)
        ELSE IF o.poll # 0
        THEN RunResult(<<"sync", copy, "RDMA_WRITE", "poll">>, FALSE,
                       <<character, ": poll completion failed">>, <<>>)
        ELSE IF o.sync2 # 0
        THEN RunResult(<<"sync", copy, "RDMA_WRITE", "poll", "sync">>, FALSE,
                       <<"sync error">>, <<>>)
        ELSE RunResult(<<"sync", copy, "RDMA_WRITE", "poll", "sync">>, TRUE, <<>>, <<>>)

\* RDMAHandler.Read(res, character)
ReadRun(character, o) ==
    IF o.sync1 # 0
    THEN RunResult(<<"sync">>, FALSE, <<"sync error">>, <<>>)
    ELSE IF o.post # 0
    THEN RunResult(<<"sync", "RDMA_READ">>, FALSE,
                   <<character, ": failed to post SR">>, <<>>)
    ELSE IF o.poll # 0
    THEN RunResult(<<"sync", "RDMA_READ", "poll">>, FALSE,
                   <<character, ": poll completion after post_send failed">>, <<>>)
    ELSE IF o.sync2 # 0
    THEN RunResult(<<"sync", "RDMA_READ", "poll", "sync">>, FALSE,
                   <<"sync error">>, <<>>)
    ELSE RunResult(<<"sync", "RDMA_READ", "poll", "sync">>, TRUE, <<>>, GoString(o.buf))

\* no call made (SpecLabel starts from RunsOf)
RunsNone ==
    [op |-> "none", contents |-> <<>>, o |-> <<>>, labels |-> <<>>, out |-> <<>>]

\* the call op(contents) to make under the labels a and b, against o
RunsOf(op, contents, o, a, b) ==
    [op |-> op, contents |-> contents, o |-> o, labels |-> <<a, b>>, out |-> <<>>]

\* the call is made under either label
LabelCalls ==
    /\ runs.op # "none"
    /\ runs.out = <<>>
    /\ runs' = [runs EXCEPT !.out =
                  [i \in 1..2 |->
                      IF runs.op = "Write"
                      THEN WriteRun(runs.contents, runs.labels[i], runs.o)
                      ELSE ReadRun(runs.labels[i], runs.o)]]
    /\ UNCHANGED <<pc, ncall, netVars, config, hostLE, faults, shared, thr, resVars,
                   dataVars>>

(***************************************************************************)
(* SpecInit: the server runs InitServer and the client InitClient, each in *)
(* its own process; every system call and every verb may fail.             *)
(***************************************************************************)
GidIdxChoices == {-1, 0}

InitInit ==
    /\ pc = [p \in Peers |-> "start"]
    /\ ncall = [p \in Peers |-> 0]
    /\ chan = [p \in Peers |-> <<>>]
    /\ sockOpen = [p \in Peers |-> "none"]
    /\ sync = [p \in Peers |-> SyncIdle]
    /\ \E g \in GidIdxChoices : config = [p \in Peers |-> ConfigOf(p, g)]
    /\ hostLE = [p \in Peers |-> TRUE]
    /\ faults = AllFaults
    /\ shared = ConfigDefault
    /\ thr = [t \in Peers |-> ThrNone]
    /\ runs = RunsNone
    /\ res = [p \in Peers |-> ResZero]
    /\ qp = [p \in Peers |-> QpNone]
    /\ log = [p \in Peers |-> <<>>]
    /\ conn = [p \in Peers |-> ConnNone]
    /\ mem = [p \in Peers |-> ZeroBytes(MSG_SIZE)]
    /\ wq = [p \in Peers |-> <<>>]
    /\ cqueue = [p \in Peers |-> <<>>]
    /\ call = [p \in Peers |-> CallNone]
    /\ poll = [p \in Peers |-> PollIdle]
    /\ now = 0

InitNext ==
    \E p \in Peers :
        \/ InitResourcesCreate(p)
        \/ ConnectQpStart(p)
        \/ SockSyncWrite(p)
        \/ SockSyncReadData(p)
        \/ SockSyncReadEof(p)
        \/ SockSyncReadError(p)
        \/ SockSyncReturn(p)
        \/ ConnectQpAfterExchange(p)
        \/ ModifyQpToInit(p)
        \/ PostReceive(p)
        \/ ModifyQpToRtr(p)
        \/ ModifyQpToRts(p)
        \/ ConnectQpBarrier(p)
        \/ InitReturn(p)

SpecInit == InitInit /\ [][InitNext]_vars

(***************************************************************************)
(* SpecCreate: resources_create alone, on a resource set that is Go's zero *)
(* value or that resources_init prepared, and resources_destroy called on  *)
(* the set it leaves, filled or not; every call may fail.                  *)
(***************************************************************************)
\* resources_init(res): "memset(res, 0, sizeof *res); res->sock = -1;"
ResourcesInit == [ResZero EXCEPT !.sock = -1]

CreateInit ==
    /\ pc = [p \in Peers |-> "start"]
    /\ ncall = [p \in Peers |-> 0]
    /\ chan = [p \in Peers |-> <<>>]
    /\ sockOpen = [p \in Peers |-> "none"]
    /\ sync = [p \in Peers |-> SyncIdle]
    /\ config = [p \in Peers |-> ConfigOf(p, -1)]
    /\ hostLE = [p \in Peers |-> TRUE]
    /\ faults = AllFaults
    /\ shared = ConfigDefault
    /\ thr = [t \in Peers |-> ThrNone]
    /\ runs = RunsNone
    /\ \E r \in {ResZero, ResourcesInit} : res = [p \in Peers |-> r]
    /\ qp = [p \in Peers |-> QpNone]
    /\ log = [p \in Peers |-> <<>>]
    /\ conn = [p \in Peers |-> ConnNone]
    /\ mem = [p \in Peers |-> ZeroBytes(MSG_SIZE)]
    /\ wq = [p \in Peers |-> <<>>]
    /\ cqueue = [p \in Peers |-> <<>>]
    /\ call = [p \in Peers |-> CallNone]
    /\ poll = [p \in Peers |-> PollIdle]
    /\ now = 0

CreateNext ==
    \E p \in Peers :
        \/ InitResourcesCreate(p)
        \/ DestroyAfterFailedCreate(p)
        \/ ResourcesDestroy(p)

SpecCreate == CreateInit /\ [][CreateNext]_vars

(***************************************************************************)
(* SpecTwice: SpecCreate with a caller that calls Destroy again.           *)
(***************************************************************************)
TwiceNext ==
    \/ CreateNext
    \/ \E p \in Peers : DestroyAgain(p)

SpecTwice == CreateInit /\ [][TwiceNext]_vars

(***************************************************************************)
(* SpecQp: connect_qp on two peers whose resources_create succeeded (one   *)
(* address, one connection), up to the return of initRDMAConnection; every *)
(* system call and every verb may fail.                                    *)
(***************************************************************************)
\* what resources_create made of Go's zero value
Created(p) ==
    ResourcesCreateRun(ResZero, 0,
                       SockConnectRun(ConfigOf(p, -1).server_name, 0, <<"ok">>))

QpInit ==
    /\ pc = [p \in Peers |-> "connect_qp"]
    /\ ncall = [p \in Peers |-> 0]
    /\ chan = [p \in Peers |-> <<>>]
    /\ sockOpen = [p \in Peers |-> "open"]
    /\ sync = [p \in Peers |-> SyncIdle]
    /\ \E g \in GidIdxChoices : config = [p \in Peers |-> ConfigOf(p, g)]
    /\ hostLE = [p \in Peers |-> TRUE]
    /\ faults = AllFaults
    /\ shared = ConfigDefault
    /\ thr = [t \in Peers |-> ThrNone]
    /\ runs = RunsNone
    /\ res = [p \in Peers |-> Created(p).res]
    /\ qp = [p \in Peers |-> [QpNone EXCEPT !.state = "RESET"]]
    /\ log = [p \in Peers |-> Created(p).log]
    /\ conn = [p \in Peers |-> ConnNone]
    /\ mem = [p \in Peers |-> ZeroBytes(MSG_SIZE)]
    /\ wq = [p \in Peers |-> <<>>]
    /\ cqueue = [p \in Peers |-> <<>>]
    /\ call = [p \in Peers |-> CallNone]
    /\ poll = [p \in Peers |-> PollIdle]
    /\ now = 0

QpNext ==
    \E p \in Peers :
        \/ ConnectQpStart(p)
        \/ SockSyncWrite(p)
        \/ SockSyncReadData(p)
        \/ SockSyncReadEof(p)
        \/ SockSyncReadError(p)
        \/ SockSyncReturn(p)
        \/ ConnectQpAfterExchange(p)
        \/ ModifyQpToInit(p)
        \/ PostReceive(p)
        \/ ModifyQpToRtr(p)
        \/ ModifyQpToRts(p)
        \/ ConnectQpBarrier(p)
        \/ InitReturn(p)

SpecQp == QpInit /\ [][QpNext]_vars

(***************************************************************************)
(* SpecLink: connect_qp as in SpecQp, and the calls of Write and Read each *)
(* peer makes on the resources initRDMAConnection returned to it; a        *)
(* write() may take some of its bytes only, no call fails.                 *)
(***************************************************************************)
LinkInit ==
    /\ pc = [p \in Peers |-> "connect_qp"]
    /\ ncall = [p \in Peers |-> 0]
    /\ chan = [p \in Peers |-> <<>>]
    /\ sockOpen = [p \in Peers |-> "open"]
    /\ sync = [p \in Peers |-> SyncIdle]
    /\ config = [p \in Peers |-> ConfigOf(p, -1)]
    /\ hostLE = [p \in Peers |-> TRUE]
    /\ faults = {"short"}
    /\ shared = ConfigDefault
    /\ thr = [t \in Peers |-> ThrNone]
    /\ runs = RunsNone
    /\ res = [p \in Peers |-> Created(p).res]
    /\ qp = [p \in Peers |-> [QpNone EXCEPT !.state = "RESET"]]
    /\ log = [p \in Peers |-> Created(p).log]
    /\ conn = [p \in Peers |-> ConnNone]
    /\ mem = [p \in Peers |-> ZeroBytes(MSG_SIZE)]
    /\ wq = [p \in Peers |-> <<>>]
    /\ cqueue = [p \in Peers |-> <<>>]
    /\ call = [p \in Peers |-> CallNone]
    /\ poll = [p \in Peers |-> PollIdle]
    /\ now = 0

LinkNext ==
    \E p \in Peers :
        \/ ConnectQpStart(p)
        \/ SockSyncWrite(p)
        \/ SockSyncReadData(p)
        \/ SockSyncReturn(p)
        \/ ConnectQpAfterExchange(p)
        \/ ModifyQpToInit(p)
        \/ PostReceive(p)
        \/ ModifyQpToRtr(p)
        \/ ModifyQpToRts(p)
        \/ ConnectQpBarrier(p)
        \/ InitReturn(p)
        \/ XferCall(p)
        \/ XferAfterSync(p)
        \/ Strcpy(p)
        \/ PostSend(p)
        \/ NicSample(p)
        \/ NicLand(p)
        \/ PollEnter(p)
        \/ PollCq(p)
        \/ PollCompletion(p)
        \/ XferReturn(p)

SpecLink == LinkInit /\ [][LinkNext]_vars

(***************************************************************************)
(* SpecPair: SpecLink in a run in which no call fails and every write()    *)
(* takes all its bytes.                                                    *)
(***************************************************************************)
PairInit ==
    /\ pc = [p \in Peers |-> "connect_qp"]
    /\ ncall = [p \in Peers |-> 0]
    /\ chan = [p \in Peers |-> <<>>]
    /\ sockOpen = [p \in Peers |-> "open"]
    /\ sync = [p \in Peers |-> SyncIdle]
    /\ config = [p \in Peers |-> ConfigOf(p, -1)]
    /\ hostLE = [p \in Peers |-> TRUE]
    /\ faults = {}
    /\ shared = ConfigDefault
    /\ thr = [t \in Peers |-> ThrNone]
    /\ runs = RunsNone
    /\ res = [p \in Peers |-> Created(p).res]
    /\ qp = [p \in Peers |-> [QpNone EXCEPT !.state = "RESET"]]
    /\ log = [p \in Peers |-> Created(p).log]
    /\ conn = [p \in Peers |-> ConnNone]
    /\ mem = [p \in Peers |-> ZeroBytes(MSG_SIZE)]
    /\ wq = [p \in Peers |-> <<>>]
    /\ cqueue = [p \in Peers |-> <<>>]
    /\ call = [p \in Peers |-> CallNone]
    /\ poll = [p \in Peers |-> PollIdle]
    /\ now = 0

SpecPair == PairInit /\ [][LinkNext]_vars

(***************************************************************************)
(* SpecData: SpecXfer in a run in which write, read, the verbs and the     *)
(* fabric may fail, each peer having one call left to make.                *)
(***************************************************************************)
DataInit ==
    /\ pc = [p \in Peers |-> "idle"]
    /\ ncall = [p \in Peers |-> MaxCalls - 1]
    /\ chan = [p \in Peers |-> <<>>]
    /\ sockOpen = [p \in Peers |-> "open"]
    /\ sync = [p \in Peers |-> SyncIdle]
    /\ config = [p \in Peers |-> ConfigOf(p, -1)]
    /\ hostLE = [p \in Peers |-> TRUE]
    /\ faults = {"write", "read", "verbs", "fabric"}
    /\ shared = ConfigDefault
    /\ thr = [t \in Peers |-> ThrNone]
    /\ runs = RunsNone
    /\ res = [p \in Peers |->
                 [sock |-> Descriptor(IF p = "server" THEN 2 ELSE 1),
                  ib_ctx |-> 1, pd |-> 1, cq |-> 1, qp |-> 1, mr |-> 1, buf |-> 1,
                  remote_props |-> LocalConData(Other(p), ZeroBytes(16))]]
    /\ qp = [p \in Peers |->
                [state |-> "RTS", dest_qp_num |-> QpNum(Other(p)),
                 dlid |-> PortLid(Other(p)), dgid |-> <<>>, is_global |-> FALSE,
                 recv_posted |-> IF p = "client" THEN 1 ELSE 0]]
    /\ log = [p \in Peers |-> <<>>]
    /\ conn = [p \in Peers |-> [ConnNone EXCEPT !.ret = "ok"]]
    /\ mem = [p \in Peers |-> ZeroBytes(MSG_SIZE)]
    /\ wq = [p \in Peers |-> <<>>]
    /\ cqueue = [p \in Peers |-> <<>>]
    /\ call = [p \in Peers |-> CallNone]
    /\ poll = [p \in Peers |-> PollIdle]
    /\ now = 0

DataNext ==
    \E p \in Peers :
        \/ XferCall(p)
        \/ SockSyncWrite(p)
        \/ SockSyncReadData(p)
        \/ SockSyncReadError(p)
        \/ SockSyncReturn(p)
        \/ XferAfterSync(p)
        \/ Strcpy(p)
        \/ PostSend(p)
        \/ NicSample(p)
        \/ NicLand(p)
        \/ PollEnter(p)
        \/ PollCq(p)
        \/ PollCompletion(p)
        \/ XferReturn(p)

SpecData == DataInit /\ [][DataNext]_vars

(***************************************************************************)
(* SpecQueue: SpecXfer in a run in which the verbs may fail: post_send,    *)
(* and ibv_poll_cq inside poll_completion.                                 *)
(***************************************************************************)
QueueInit ==
    /\ pc = [p \in Peers |-> "idle"]
    /\ ncall = [p \in Peers |-> 0]
    /\ chan = [p \in Peers |-> <<>>]
    /\ sockOpen = [p \in Peers |-> "open"]
    /\ sync = [p \in Peers |-> SyncIdle]
    /\ config = [p \in Peers |-> ConfigOf(p, -1)]
    /\ hostLE = [p \in Peers |-> TRUE]
    /\ faults = {"verbs"}
    /\ shared = ConfigDefault
    /\ thr = [t \in Peers |-> ThrNone]
    /\ runs = RunsNone
    /\ res = [p \in Peers |->
                 [sock |-> Descriptor(IF p = "server" THEN 2 ELSE 1),
                  ib_ctx |-> 1, pd |-> 1, cq |-> 1, qp |-> 1, mr |-> 1, buf |-> 1,
                  remote_props |-> LocalConData(Other(p), ZeroBytes(16))]]
    /\ qp = [p \in Peers |->
                [state |-> "RTS", dest_qp_num |-> QpNum(Other(p)),
                 dlid |-> PortLid(Other(p)), dgid |-> <<>>, is_global |-> FALSE,
                 recv_posted |-> IF p = "client" THEN 1 ELSE 0]]
    /\ log = [p \in Peers |-> <<>>]
    /\ conn = [p \in Peers |-> [ConnNone EXCEPT !.ret = "ok"]]
    /\ mem = [p \in Peers |-> ZeroBytes(MSG_SIZE)]
    /\ wq = [p \in Peers |-> <<>>]
    /\ cqueue = [p \in Peers |-> <<>>]
    /\ call = [p \in Peers |-> CallNone]
    /\ poll = [p \in Peers |-> PollIdle]
    /\ now = 0

QueueNext ==
    \E p \in Peers :
        \/ XferCall(p)
        \/ SockSyncWrite(p)
        \/ SockSyncReadData(p)
        \/ SockSyncReturn(p)
        \/ XferAfterSync(p)
        \/ Strcpy(p)
        \/ PostSend(p)
        \/ NicSample(p)
        \/ NicLand(p)
        \/ PollEnter(p)
        \/ PollCq(p)
        \/ PollCompletion(p)
        \/ XferReturn(p)

SpecQueue == QueueInit /\ [][QueueNext]_vars

(***************************************************************************)
(* SpecThreads: InitServer and InitClient called in two threads of one     *)
(* process, each with a port of its own choice; the accesses to config.    *)
(***************************************************************************)
ThreadsInit ==
    /\ pc = [p \in Peers |-> "start"]
    /\ ncall = [p \in Peers |-> 0]
    /\ chan = [p \in Peers |-> <<>>]
    /\ sockOpen = [p \in Peers |-> "none"]
    /\ sync = [p \in Peers |-> SyncIdle]
    /\ config = [p \in Peers |-> ConfigOf(p, -1)]
    /\ hostLE = [p \in Peers |-> TRUE]
    /\ faults = {}
    /\ shared = ConfigDefault
    /\ thr \in {[t \in Peers |-> ThrCall(t, f[t])] : f \in [Peers -> Ports]}
    /\ runs = RunsNone
    /\ res = [p \in Peers |-> ResourcesInit]
    /\ qp = [p \in Peers |-> QpNone]
    /\ log = [p \in Peers |-> <<>>]
    /\ conn = [p \in Peers |-> ConnNone]
    /\ mem = [p \in Peers |-> ZeroBytes(MSG_SIZE)]
    /\ wq = [p \in Peers |-> <<>>]
    /\ cqueue = [p \in Peers |-> <<>>]
    /\ call = [p \in Peers |-> CallNone]
    /\ poll = [p \in Peers |-> PollIdle]
    /\ now = 0

ThreadsNext ==
    \E t \in Peers :
        \/ ThrSetServerName(t)
        \/ ThrSetTcpPort(t)
        \/ ThrCreateTest(t)
        \/ ThrSockConnect(t)
        \/ ThrConnectQpTest(t)

SpecThreads == ThreadsInit /\ [][ThreadsNext]_vars

(***************************************************************************)
(* SpecSock: sock_connect alone, once in each role, every call it makes    *)
(* free to fail.                                                           *)
(***************************************************************************)
SockInit ==
    /\ pc = [p \in Peers |-> "start"]
    /\ ncall = [p \in Peers |-> 0]
    /\ chan = [p \in Peers |-> <<>>]
    /\ sockOpen = [p \in Peers |-> "none"]
    /\ sync = [p \in Peers |-> SyncIdle]
    /\ config = [p \in Peers |-> ConfigOf(p, -1)]
    /\ hostLE = [p \in Peers |-> TRUE]
    /\ faults = {"socket"}
    /\ shared = ConfigDefault
    /\ thr = [t \in Peers |-> ThrNone]
    /\ runs = RunsNone
    /\ res = [p \in Peers |-> ResourcesInit]
    /\ qp = [p \in Peers |-> QpNone]
    /\ log = [p \in Peers |-> <<>>]
    /\ conn = [p \in Peers |-> ConnNone]
    /\ mem = [p \in Peers |-> ZeroBytes(MSG_SIZE)]
    /\ wq = [p \in Peers |-> <<>>]
    /\ cqueue = [p \in Peers |-> <<>>]
    /\ call = [p \in Peers |-> CallNone]
    /\ poll = [p \in Peers |-> PollIdle]
    /\ now = 0

SockNext == \E p \in Peers : SockConnect(p)

SpecSock == SockInit /\ [][SockNext]_vars

(***************************************************************************)
(* SpecLabel: one call of Write or Read, made under two role labels        *)
(* against the same results of the calls it makes.                         *)
(***************************************************************************)
LabelInit ==
    /\ pc = [p \in Peers |-> "idle"]
    /\ ncall = [p \in Peers |-> 0]
    /\ chan = [p \in Peers |-> <<>>]
    /\ sockOpen = [p \in Peers |-> "open"]
    /\ sync = [p \in Peers |-> SyncIdle]
    /\ config = [p \in Peers |-> ConfigOf(p, -1)]
    /\ hostLE = [p \in Peers |-> TRUE]
    /\ faults = {}
    /\ shared = ConfigDefault
    /\ thr = [t \in Peers |-> ThrNone]
    /\ \E op \in {"Write", "Read"}, o \in Outcomes, a \in Labels, b \in Labels :
          \E c \in (IF op = "Write" THEN Payloads ELSE {<<>>}) :
              runs = RunsOf(op, c, o, a, b)
    /\ res = [p \in Peers |-> ResourcesInit]
    /\ qp = [p \in Peers |-> QpNone]
    /\ log = [p \in Peers |-> <<>>]
    /\ conn = [p \in Peers |-> ConnNone]
    /\ mem = [p \in Peers |-> ZeroBytes(MSG_SIZE)]
    /\ wq = [p \in Peers |-> <<>>]
    /\ cqueue = [p \in Peers |-> <<>>]
    /\ call = [p \in Peers |-> CallNone]
    /\ poll = [p \in Peers |-> PollIdle]
    /\ now = 0

LabelNext == LabelCalls

SpecLabel == LabelInit /\ [][LabelNext]_vars

(***************************************************************************)
(* SpecLife: InitServer and InitClient as in SpecInit, in a run in which   *)
(* the socket calls may fail, and the calls of Write and Read each peer    *)
(* makes on the resources it was returned.                                 *)
(***************************************************************************)
LifeInit ==
    /\ pc = [p \in Peers |-> "start"]
    /\ ncall = [p \in Peers |-> 0]
    /\ chan = [p \in Peers |-> <<>>]
    /\ sockOpen = [p \in Peers |-> "none"]
    /\ sync = [p \in Peers |-> SyncIdle]
    /\ config = [p \in Peers |-> ConfigOf(p, -1)]
    /\ hostLE = [p \in Peers |-> TRUE]
    /\ faults = {"socket"}
    /\ shared = ConfigDefault
    /\ thr = [t \in Peers |-> ThrNone]
    /\ runs = RunsNone
    /\ res = [p \in Peers |-> ResZero]
    /\ qp = [p \in Peers |-> QpNone]
    /\ log = [p \in Peers |-> <<>>]
    /\ conn = [p \in Peers |-> ConnNone]
    /\ mem = [p \in Peers |-> ZeroBytes(MSG_SIZE)]
    /\ wq = [p \in Peers |-> <<>>]
    /\ cqueue = [p \in Peers |-> <<>>]
    /\ call = [p \in Peers |-> CallNone]
    /\ poll = [p \in Peers |-> PollIdle]
    /\ now = 0

LifeNext ==
    \E p \in Peers :
        \/ InitResourcesCreate(p)
        \/ ConnectQpStart(p)
        \/ SockSyncWrite(p)
        \/ SockSyncReadData(p)
        \/ SockSyncReadEof(p)
        \/ SockSyncReturn(p)
        \/ ConnectQpAfterExchange(p)
        \/ ModifyQpToInit(p)
        \/ PostReceive(p)
        \/ ModifyQpToRtr(p)
        \/ ModifyQpToRts(p)
        \/ ConnectQpBarrier(p)
        \/ InitReturn(p)
        \/ XferCall(p)
        \/ XferAfterSync(p)
        \/ Strcpy(p)
        \/ PostSend(p)
        \/ NicSample(p)
        \/ NicLand(p)
        \/ PollEnter(p)
        \/ PollCq(p)
        \/ PollCompletion(p)
        \/ XferReturn(p)

SpecLife == LifeInit /\ [][LifeNext]_vars

(***************************************************************************)
(* SpecDev: resources_create alone, on hosts of 0..MaxDevices devices,     *)
(* with and without a configured device name.                              *)
(***************************************************************************)
DevInit ==
    /\ pc = [p \in Peers |-> "start"]
    /\ ncall = [p \in Peers |-> 0]
    /\ chan = [p \in Peers |-> <<>>]
    /\ sockOpen = [p \in Peers |-> "none"]
    /\ sync = [p \in Peers |-> SyncIdle]
    /\ \E n \in [Peers -> DevNames \cup {""}] :
          config = [p \in Peers |-> [ConfigOf(p, -1) EXCEPT !.dev_name = n[p]]]
    /\ hostLE = [p \in Peers |-> TRUE]
    /\ faults = {}
    /\ shared = ConfigDefault
    /\ thr = [t \in Peers |-> ThrNone]
    /\ runs = RunsNone
    /\ res = [p \in Peers |-> ResourcesInit]
    /\ qp = [p \in Peers |-> QpNone]
    /\ log = [p \in Peers |-> <<>>]
    /\ \E l \in [Peers -> DevLists] :
          conn = [p \in Peers |->
                    [ConnNone EXCEPT !.dev = [list |-> l[p],
                                              configured |-> config[p].dev_name,
                                              ib_dev |-> 0]]]
    /\ mem = [p \in Peers |-> ZeroBytes(MSG_SIZE)]
    /\ wq = [p \in Peers |-> <<>>]
    /\ cqueue = [p \in Peers |-> <<>>]
    /\ call = [p \in Peers |-> CallNone]
    /\ poll = [p \in Peers |-> PollIdle]
    /\ now = 0

DevNext == \E p \in Peers : ResourcesCreateOnDevices(p)

SpecDev == DevInit /\ [][DevNext]_vars

(***************************************************************************)
(* SpecStale: SpecQueue with a clock, with verbs that do not fail: a       *)
(* poll_completion fails by its timeout or by the status of a completion.  *)
(* The server makes MaxCalls calls, the client the one call that the       *)
(* barrier exchanges of the server's calls need.                           *)
(***************************************************************************)
StaleInit ==
    /\ pc = [p \in Peers |-> "idle"]
    /\ ncall = [p \in Peers |-> IF p = "client" THEN MaxCalls - 1 ELSE 0]
    /\ chan = [p \in Peers |-> <<>>]
    /\ sockOpen = [p \in Peers |-> "open"]
    /\ sync = [p \in Peers |-> SyncIdle]
    /\ config = [p \in Peers |-> ConfigOf(p, -1)]
    /\ hostLE = [p \in Peers |-> TRUE]
    /\ faults = {}
    /\ shared = ConfigDefault
    /\ thr = [t \in Peers |-> ThrNone]
    /\ runs = RunsNone
    /\ res = [p \in Peers |->
                 [sock |-> Descriptor(IF p = "server" THEN 2 ELSE 1),
                  ib_ctx |-> 1, pd |-> 1, cq |-> 1, qp |-> 1, mr |-> 1, buf |-> 1,
                  remote_props |-> LocalConData(Other(p), ZeroBytes(16))]]
    /\ qp = [p \in Peers |->
                [state |-> "RTS", dest_qp_num |-> QpNum(Other(p)),
                 dlid |-> PortLid(Other(p)), dgid |-> <<>>, is_global |-> FALSE,
                 recv_posted |-> IF p = "client" THEN 1 ELSE 0]]
    /\ log = [p \in Peers |-> <<>>]
    /\ conn = [p \in Peers |-> [ConnNone EXCEPT !.ret = "ok"]]
    /\ mem = [p \in Peers |-> ZeroBytes(MSG_SIZE)]
    /\ wq = [p \in Peers |-> <<>>]
    /\ cqueue = [p \in Peers |-> <<>>]
    /\ call = [p \in Peers |-> CallNone]
    /\ poll = [p \in Peers |-> PollIdle]
    /\ now = 0

StaleNext ==
    \/ QueueNext
    \/ Tick

SpecStale == StaleInit /\ [][StaleNext]_vars

(***************************************************************************)
(* SpecBlock: one Write or Read call on each peer, with verbs that may     *)
(* fail and completions that may be bad.  A thread inside a call goes on   *)
(* running and the adapters carry out what was posted; nothing makes a     *)
(* caller start a call.                                                    *)
(***************************************************************************)
BlockInit ==
    /\ pc = [p \in Peers |-> "idle"]
    /\ ncall = [p \in Peers |-> MaxCalls - 1]
    /\ chan = [p \in Peers |-> <<>>]
    /\ sockOpen = [p \in Peers |-> "open"]
    /\ sync = [p \in Peers |-> SyncIdle]
    /\ config = [p \in Peers |-> ConfigOf(p, -1)]
    /\ hostLE = [p \in Peers |-> TRUE]
    /\ faults = {"verbs", "fabric"}
    /\ shared = ConfigDefault
    /\ thr = [t \in Peers |-> ThrNone]
    /\ runs = RunsNone
    /\ res = [p \in Peers |->
                 [sock |-> Descriptor(IF p = "server" THEN 2 ELSE 1),
                  ib_ctx |-> 1, pd |-> 1, cq |-> 1, qp |-> 1, mr |-> 1, buf |-> 1,
                  remote_props |-> LocalConData(Other(p), ZeroBytes(16))]]
    /\ qp = [p \in Peers |->
                [state |-> "RTS", dest_qp_num |-> QpNum(Other(p)),
                 dlid |-> PortLid(Other(p)), dgid |-> <<>>, is_global |-> FALSE,
                 recv_posted |-> IF p = "client" THEN 1 ELSE 0]]
    /\ log = [p \in Peers |-> <<>>]
    /\ conn = [p \in Peers |-> [ConnNone EXCEPT !.ret = "ok"]]
    /\ mem = [p \in Peers |-> ZeroBytes(MSG_SIZE)]
    /\ wq = [p \in Peers |-> <<>>]
    /\ cqueue = [p \in Peers |-> <<>>]
    /\ call = [p \in Peers |-> CallNone]
    /\ poll = [p \in Peers |-> PollIdle]
    /\ now = 0

\* a step of p's thread inside a Write or Read call, or of p's adapter
XferRuns(p) ==
    \/ SockSyncWrite(p)
    \/ SockSyncReadData(p)
    \/ SockSyncReturn(p)
    \/ XferAfterSync(p)
    \/ Strcpy(p)
    \/ PostSend(p)
    \/ NicSample(p)
    \/ NicLand(p)
    \/ PollEnter(p)
    \/ PollCq(p)
    \/ PollCompletion(p)
    \/ XferReturn(p)

BlockNext == \E p \in Peers : XferCall(p) \/ XferRuns(p)

SpecBlock == BlockInit /\ [][BlockNext]_vars /\ \A p \in Peers : WF_vars(XferRuns(p))

(***************************************************************************)
(* SpecAbort: connect_qp as in SpecQp, in runs in which a verb may fail    *)
(* and no system call does, up to the return of initRDMAConnection, which  *)
(* destroys the resources when connect_qp failed.  Each peer's thread      *)
(* keeps running.                                                          *)
(***************************************************************************)
AbortInit ==
    /\ pc = [p \in Peers |-> "connect_qp"]
    /\ ncall = [p \in Peers |-> 0]
    /\ chan = [p \in Peers |-> <<>>]
    /\ sockOpen = [p \in Peers |-> "open"]
    /\ sync = [p \in Peers |-> SyncIdle]
    /\ config = [p \in Peers |-> ConfigOf(p, -1)]
    /\ hostLE = [p \in Peers |-> TRUE]
    /\ faults = {"verbs"}
    /\ shared = ConfigDefault
    /\ thr = [t \in Peers |-> ThrNone]
    /\ runs = RunsNone
    /\ res = [p \in Peers |-> Created(p).res]
    /\ qp = [p \in Peers |-> [QpNone EXCEPT !.state = "RESET"]]
    /\ log = [p \in Peers |-> Created(p).log]
    /\ conn = [p \in Peers |-> ConnNone]
    /\ mem = [p \in Peers |-> ZeroBytes(MSG_SIZE)]
    /\ wq = [p \in Peers |-> <<>>]
    /\ cqueue = [p \in Peers |-> <<>>]
    /\ call = [p \in Peers |-> CallNone]
    /\ poll = [p \in Peers |-> PollIdle]
    /\ now = 0

AbortStep(p) ==
    \/ ConnectQpStart(p)
    \/ SockSyncWrite(p)
    \/ SockSyncReadData(p)
    \/ SockSyncReadEof(p)
    \/ SockSyncReturn(p)
    \/ ConnectQpAfterExchange(p)
    \/ ModifyQpToInit(p)
    \/ PostReceive(p)
    \/ ModifyQpToRtr(p)
    \/ ModifyQpToRts(p)
    \/ ConnectQpBarrier(p)
    \/ InitReturn(p)

AbortNext == \E p \in Peers : AbortStep(p)

SpecAbort ==
    AbortInit /\ [][AbortNext]_vars /\ \A p \in Peers : WF_vars(AbortStep(p))

(***************************************************************************)
(* SpecMain: main of the command-line program behind a resources_create    *)
(* that succeeded.  What main calls is modelled elsewhere; here a call     *)
(* returns 0 or not, and main goes where its result sends it.  pc[p] is    *)
(* the place of p's main, ncall[p] the passes of the loop it has made.     *)
(***************************************************************************)
\* the values a call of main may return
MainResults == {0, 1}

\* "if C.connect_qp(&res) != 0 { fmt.Fprintf(...); return }"
MainConnectQp(p) ==
    /\ pc[p] = "main_connect_qp"
    /\ \E rc \in MainResults :
          /\ conn' = [conn EXCEPT ![p].rc = rc]
          /\ pc' = [pc EXCEPT ![p] = IF rc # 0 THEN "main_end" ELSE "main_top"]
    /\ UNCHANGED <<ncall, netVars, envVars, res, qp, log, dataVars>>

\* the top of a pass of "for { ... }": the server asks for a message ("if
\* C.config.server_name == nil { shouldExit = receive_message(...); if
\* shouldExit != 0 { rc = 0; break } }"), the client goes on to the barrier
MainTop(p) ==
    /\ pc[p] = "main_top"
    /\ ncall[p] < MaxCalls
    /\ IF config[p].server_name = ""
       THEN \E shouldExit \in MainResults :
               pc' = [pc EXCEPT ![p] = IF shouldExit # 0 THEN "main_destroy"
                                       ELSE "main_sync1"]
       ELSE pc' = [pc EXCEPT ![p] = "main_sync1"]
    /\ UNCHANGED <<ncall, netVars, envVars, resVars, dataVars>>

\* "if C.sock_sync_data(res.sock, 1, C.CString("R"), &tempChar) != 0 { ...;
\* rc = 1; break }" and, at the end of the pass, "if C.sock_sync_data(res.sock,
\* 1, goStrToCStr("W"), &tempChar) != 0 { ...; break }"
MainSync(p) ==
    /\ pc[p] \in {"main_sync1", "main_sync2"}
    /\ \E rc \in MainResults :
          /\ pc' = [pc EXCEPT ![p] =
                       IF rc # 0 THEN "main_destroy"
                       ELSE IF pc[p] = "main_sync2" THEN "main_top"
                       ELSE IF config[p].server_name # "" THEN "main_post_send"
                       ELSE "main_sync2"]
          /\ ncall' = [ncall EXCEPT ![p] =
                          IF rc = 0 /\ pc[p] = "main_sync2" THEN @ + 1 ELSE @]
          /\ call' = [call EXCEPT ![p] =
                         IF pc[p] = "main_sync1"
                         THEN [CallNone EXCEPT !.op = "Read"] ELSE @]
    /\ UNCHANGED <<netVars, envVars, resVars, mem, wq, cqueue, poll, now>>

\* "if C.post_send(&res, C.IBV_WR_RDMA_READ) != 0 { ...; rc = 1; break }" and
\* the same with IBV_WR_RDMA_WRITE
MainPostSend(p) ==
    /\ pc[p] = "main_post_send"
    /\ \E rc \in MainResults :
          pc' = [pc EXCEPT ![p] = IF rc # 0 THEN "main_destroy" ELSE "main_poll"]
    /\ UNCHANGED <<ncall, netVars, envVars, resVars, dataVars>>

\* "if C.poll_completion(&res) != 0 { ...; rc = 1; break }", behind the read
\* and behind the write
MainPollCompletion(p) ==
    /\ pc[p] = "main_poll"
    /\ \E rc \in MainResults :
          pc' = [pc EXCEPT ![p] =
                    IF rc # 0 THEN "main_destroy"
                    ELSE IF call[p].op = "Read" THEN "main_receive"
                    ELSE "main_sync2"]
    /\ UNCHANGED <<ncall, netVars, envVars, resVars, dataVars>>

\* the client asks for a message: "shouldExit = int(C.receive_message(&res,
\* C.CString("Client"))); if shouldExit != 0 { rc = 0; break }"
MainReceiveMessage(p) ==
    /\ pc[p] = "main_receive"
    /\ \E shouldExit \in MainResults :
          pc' = [pc EXCEPT ![p] = IF shouldExit # 0 THEN "main_destroy"
                                  ELSE "main_post_send"]
    /\ call' = [call EXCEPT ![p].op = "Write"]
    /\ UNCHANGED <<ncall, netVars, envVars, resVars, mem, wq, cqueue, poll, now>>

\* behind the loop: "if C.resources_destroy(&res) != 0 { ... } else { ... }",
\* and the end of main
MainDestroy(p) ==
    /\ pc[p] = "main_destroy"
    /\ \E failing \in ReleaseFailures :
          LET st == ResourcesDestroyRun(res[p], failing)
          IN /\ log' = [log EXCEPT ![p] = @ \o st.log]
             /\ conn' = [conn EXCEPT ![p].destroy_rc = st.rc, ![p].released = st.log,
                                      ![p].failed = st.failed]
    /\ sockOpen' = [sockOpen EXCEPT ![p] = "closed"]
    /\ pc' = [pc EXCEPT ![p] = "main_end"]
    /\ UNCHANGED <<ncall, chan, sync, envVars, res, qp, dataVars>>

MainInit ==
    /\ pc = [p \in Peers |-> "main_connect_qp"]
    /\ ncall = [p \in Peers |-> 0]
    /\ chan = [p \in Peers |-> <<>>]
    /\ sockOpen = [p \in Peers |-> "open"]
    /\ sync = [p \in Peers |-> SyncIdle]
    /\ config = [p \in Peers |-> ConfigOf(p, -1)]
    /\ hostLE = [p \in Peers |-> TRUE]
    /\ faults = AllFaults
    /\ shared = ConfigDefault
    /\ thr = [t \in Peers |-> ThrNone]
    /\ runs = RunsNone
    /\ res = [p \in Peers |-> Created(p).res]
    /\ qp = [p \in Peers |-> [QpNone EXCEPT !.state = "RESET"]]
    /\ log = [p \in Peers |-> Created(p).log]
    /\ conn = [p \in Peers |-> ConnNone]
    /\ mem = [p \in Peers |-> ZeroBytes(MSG_SIZE)]
    /\ wq = [p \in Peers |-> <<>>]
    /\ cqueue = [p \in Peers |-> <<>>]
    /\ call = [p \in Peers |-> CallNone]
    /\ poll = [p \in Peers |-> PollIdle]
    /\ now = 0

MainNext ==
    \E p \in Peers :
        \/ MainConnectQp(p)
        \/ MainTop(p)
        \/ MainSync(p)
        \/ MainPostSend(p)
        \/ MainPollCompletion(p)
        \/ MainReceiveMessage(p)
        \/ MainDestroy(p)

SpecMain == MainInit /\ [][MainNext]_vars

(***************************************************************************)
(* SpecPoll: post_send and poll_completion alone.  Both peers, connected,  *)
(* have called Read and passed its first barrier; each posts its work      *)
(* request and polls for the completion.  The verbs and the fabric may     *)
(* fail, and the adapters may take any time, or for ever, to carry a work  *)
(* request out; the clock advances and each polling thread keeps running.  *)
(***************************************************************************)
PollInit ==
    /\ pc = [p \in Peers |-> "post_send"]
    /\ ncall = [p \in Peers |-> 0]
    /\ chan = [p \in Peers |-> <<>>]
    /\ sockOpen = [p \in Peers |-> "open"]
    /\ sync = [p \in Peers |-> SyncIdle]
    /\ config = [p \in Peers |-> ConfigOf(p, -1)]
    /\ hostLE = [p \in Peers |-> TRUE]
    /\ faults = {"verbs", "fabric"}
    /\ shared = ConfigDefault
    /\ thr = [t \in Peers |-> ThrNone]
    /\ runs = RunsNone
    /\ res = [p \in Peers |->
                 [sock |-> Descriptor(IF p = "server" THEN 2 ELSE 1),
                  ib_ctx |-> 1, pd |-> 1, cq |-> 1, qp |-> 1, mr |-> 1, buf |-> 1,
                  remote_props |-> LocalConData(Other(p), ZeroBytes(16))]]
    /\ qp = [p \in Peers |->
                [state |-> "RTS", dest_qp_num |-> QpNum(Other(p)),
                 dlid |-> PortLid(Other(p)), dgid |-> <<>>, is_global |-> FALSE,
                 recv_posted |-> IF p = "client" THEN 1 ELSE 0]]
    /\ log = [p \in Peers |-> <<>>]
    /\ conn = [p \in Peers |-> [ConnNone EXCEPT !.ret = "ok"]]
    /\ mem = [p \in Peers |-> ZeroBytes(MSG_SIZE)]
    /\ wq = [p \in Peers |-> <<>>]
    /\ cqueue = [p \in Peers |-> <<>>]
    /\ call = [p \in Peers |-> [CallNone EXCEPT !.op = "Read"]]
    /\ poll = [p \in Peers |-> PollIdle]
    /\ now = 0

\* a step of p's polling thread in which ibv_poll_cq does not fail
PollRuns(p) ==
    \/ PollEnter(p)
    \/ \E r \in PollResults(p) \cap {0, 1} : PollPass(p, r)

PollNext ==
    \/ Tick
    \/ \E p \in Peers :
          \/ PostSend(p)
          \/ NicSample(p)
          \/ NicLand(p)
          \/ PollEnter(p)
          \/ PollCq(p)

SpecPoll ==
    PollInit /\ [][PollNext]_vars /\ WF_vars(Tick) /\ \A p \in Peers : WF_vars(PollRuns(p))

(***************************************************************************)
(* SpecSync: each peer calls sock_sync_data once per entry of XferSizes,   *)
(* as connect_qp does (a block, then one byte); it stops and closes its    *)
(* socket after a call that returned non-zero or after the last call.      *)
(***************************************************************************)
XferSizes == <<MaxXfer, 1>>

\* the block peer p passes as local_data in its i-th call: every byte of
\* the script differs from every other
LocalBlock(p, i) == [j \in 1..XferSizes[i] |-> 100 * PeerNo(p) + 10 * i + j]

SyncInit ==
    /\ pc = [p \in Peers |-> "script"]
    /\ ncall = [p \in Peers |-> 0]
    /\ chan = [p \in Peers |-> <<>>]
    /\ sockOpen = [p \in Peers |-> "open"]
    /\ sync = [p \in Peers |-> SyncIdle]
    /\ config = [p \in Peers |-> ConfigOf(p, -1)]
    /\ hostLE = [p \in Peers |-> TRUE]
    /\ faults = AllFaults
    /\ shared = ConfigDefault
    /\ thr = [t \in Peers |-> ThrNone]
    /\ runs = RunsNone
    /\ res = [p \in Peers |-> [ResZero EXCEPT !.sock = 3]]
    /\ qp = [p \in Peers |-> QpNone]
    /\ log = [p \in Peers |-> <<>>]
    /\ conn = [p \in Peers |-> ConnNone]
    /\ mem = [p \in Peers |-> ZeroBytes(MSG_SIZE)]
    /\ wq = [p \in Peers |-> <<>>]
    /\ cqueue = [p \in Peers |-> <<>>]
    /\ call = [p \in Peers |-> CallNone]
    /\ poll = [p \in Peers |-> PollIdle]
    /\ now = 0

ScriptCall(p) ==
    /\ pc[p] = "script"
    /\ sync[p].state = "idle"
    /\ ncall[p] < Len(XferSizes)
    /\ \E g \in UninitBytes :
          sync' = [sync EXCEPT ![p] =
                      SyncEnter(XferSizes[ncall[p] + 1], LocalBlock(p, ncall[p] + 1),
                                [j \in 1..XferSizes[ncall[p] + 1] |-> g])]
    /\ UNCHANGED <<pc, ncall, chan, sockOpen, envVars, resVars, dataVars>>

ScriptNext(p) ==
    /\ pc[p] = "script"
    /\ sync[p].state = "done"
    /\ sync[p].rc = 0
    /\ ncall[p] + 1 < Len(XferSizes)
    /\ ncall' = [ncall EXCEPT ![p] = @ + 1]
    /\ sync' = [sync EXCEPT ![p].state = "idle"]
    /\ UNCHANGED <<pc, chan, sockOpen, envVars, resVars, dataVars>>

ScriptClose(p) ==
    /\ pc[p] = "script"
    /\ sync[p].state = "done"
    /\ sync[p].rc # 0 \/ ncall[p] + 1 = Len(XferSizes)
    /\ pc' = [pc EXCEPT ![p] = "closed"]
    /\ sockOpen' = [sockOpen EXCEPT ![p] = "closed"]
    /\ UNCHANGED <<ncall, chan, sync, envVars, resVars, dataVars>>

SyncNext ==
    \E p \in Peers :
        \/ ScriptCall(p)
        \/ SockSyncWrite(p)
        \/ SockSyncReadData(p)
        \/ SockSyncReadEof(p)
        \/ SockSyncReadError(p)
        \/ SockSyncReturn(p)
        \/ ScriptNext(p)
        \/ ScriptClose(p)

SpecSync == SyncInit /\ [][SyncNext]_vars

(***************************************************************************)
(* SpecConn: as SpecInit, in a run in which every system call and every    *)
(* verb succeeds (a read that returns some of the bytes asked for is a     *)
(* successful read), on hosts of either byte order.  Each peer's thread    *)
(* keeps running: a step of a peer that stays possible is taken.           *)
(***************************************************************************)
ConnInit ==
    /\ pc = [p \in Peers |-> "start"]
    /\ ncall = [p \in Peers |-> 0]
    /\ chan = [p \in Peers |-> <<>>]
    /\ sockOpen = [p \in Peers |-> "none"]
    /\ sync = [p \in Peers |-> SyncIdle]
    /\ \E g \in GidIdxChoices : config = [p \in Peers |-> ConfigOf(p, g)]
    /\ hostLE \in [Peers -> BOOLEAN]
    /\ faults = {}
    /\ shared = ConfigDefault
    /\ thr = [t \in Peers |-> ThrNone]
    /\ runs = RunsNone
    /\ res = [p \in Peers |-> ResZero]
    /\ qp = [p \in Peers |-> QpNone]
    /\ log = [p \in Peers |-> <<>>]
    /\ conn = [p \in Peers |-> ConnNone]
    /\ mem = [p \in Peers |-> ZeroBytes(MSG_SIZE)]
    /\ wq = [p \in Peers |-> <<>>]
    /\ cqueue = [p \in Peers |-> <<>>]
    /\ call = [p \in Peers |-> CallNone]
    /\ poll = [p \in Peers |-> PollIdle]
    /\ now = 0

ConnStep(p) ==
    \/ InitResourcesCreate(p)
    \/ ConnectQpStart(p)
    \/ SockSyncWrite(p)
    \/ SockSyncReadData(p)
    \/ SockSyncReturn(p)
    \/ ConnectQpAfterExchange(p)
    \/ ModifyQpToInit(p)
    \/ PostReceive(p)
    \/ ModifyQpToRtr(p)
    \/ ModifyQpToRts(p)
    \/ ConnectQpBarrier(p)
    \/ InitReturn(p)

ConnNext == \E p \in Peers : ConnStep(p)

SpecConn ==
    ConnInit /\ [][ConnNext]_vars /\ \A p \in Peers : WF_vars(ConnStep(p))

(***************************************************************************)
(* SpecXfer: two connected peers (InitServer and InitClient returned the   *)
(* resources, each remote_props holds the other's buffer, every call       *)
(* succeeds); each peer makes up to MaxCalls calls of Write or Read.       *)
(***************************************************************************)
XferInit ==
    /\ pc = [p \in Peers |-> "idle"]
    /\ ncall = [p \in Peers |-> 0]
    /\ chan = [p \in Peers |-> <<>>]
    /\ sockOpen = [p \in Peers |-> "open"]
    /\ sync = [p \in Peers |-> SyncIdle]
    /\ config = [p \in Peers |-> ConfigOf(p, -1)]
    /\ hostLE = [p \in Peers |-> TRUE]
    /\ faults = {}
    /\ shared = ConfigDefault
    /\ thr = [t \in Peers |-> ThrNone]
    /\ runs = RunsNone
    /\ res = [p \in Peers |->
                 [sock |-> Descriptor(IF p = "server" THEN 2 ELSE 1),
                  ib_ctx |-> 1, pd |-> 1, cq |-> 1, qp |-> 1, mr |-> 1, buf |-> 1,
                  remote_props |-> LocalConData(Other(p), ZeroBytes(16))]]
    /\ qp = [p \in Peers |->
                [state |-> "RTS", dest_qp_num |-> QpNum(Other(p)),
                 dlid |-> PortLid(Other(p)), dgid |-> <<>>, is_global |-> FALSE,
                 recv_posted |-> IF p = "client" THEN 1 ELSE 0]]
    /\ log = [p \in Peers |-> <<>>]
    /\ conn = [p \in Peers |-> [ConnNone EXCEPT !.ret = "ok"]]
    /\ mem = [p \in Peers |-> ZeroBytes(MSG_SIZE)]
    /\ wq = [p \in Peers |-> <<>>]
    /\ cqueue = [p \in Peers |-> <<>>]
    /\ call = [p \in Peers |-> CallNone]
    /\ poll = [p \in Peers |-> PollIdle]
    /\ now = 0

XferNext ==
    \E p \in Peers :
        \/ XferCall(p)
        \/ SockSyncWrite(p)
        \/ SockSyncReadData(p)
        \/ SockSyncReturn(p)
        \/ XferAfterSync(p)
        \/ Strcpy(p)
        \/ PostSend(p)
        \/ NicSample(p)
        \/ NicLand(p)
        \/ PollEnter(p)
        \/ PollCq(p)
        \/ PollCompletion(p)
        \/ XferReturn(p)

SpecXfer == XferInit /\ [][XferNext]_vars

(***************************************************************************)
(* SpecCopy: the buffer of a peer under the copies of Write and the        *)
(* conversions of Read, for every payload shorter than the buffer, without *)
(* the transfers between the peers.                                        *)
(***************************************************************************)
\* the strings shorter than the buffer: no 0 byte, at most MSG_SIZE - 1 bytes
CopyPayloads == UNION {[1..n -> PayloadBytes] : n \in 0..(MSG_SIZE - 1)}

\* Write up to its copy: "cContents := C.CString(contents)"
CopyCall(p) ==
    /\ pc[p] = "idle"
    /\ ncall[p] < MaxCalls
    /\ \E c \in CopyPayloads :
          call' = [call EXCEPT ![p] = [CallNone EXCEPT !.op = "Write", !.contents = c]]
    /\ pc' = [pc EXCEPT ![p] = "strcpy"]
    /\ UNCHANGED <<ncall, netVars, envVars, resVars, mem, wq, cqueue, poll, now>>

\* the conversion at the end of Read, on the buffer as the copy left it:
\* "return C.GoString(res.res.buf), nil"
CopyRead(p) ==
    /\ pc[p] = "post_send"
    /\ call' = [call EXCEPT ![p].value = GoString(mem[p]), ![p].buf = mem[p]]
    /\ pc' = [pc EXCEPT ![p] = "idle"]
    /\ ncall' = [ncall EXCEPT ![p] = @ + 1]
    /\ UNCHANGED <<netVars, envVars, resVars, mem, wq, cqueue, poll, now>>

CopyNext == \E p \in Peers : CopyCall(p) \/ Strcpy(p) \/ CopyRead(p)

SpecCopy == XferInit /\ [][CopyNext]_vars

(***************************************************************************)
(* Properties.                                                             *)
(***************************************************************************)
\* the acquisition and the release event of the resource an event is about
AcqOf(ev) == <<"acq", ev[2], ev[3]>>

RelOf(ev) == <<"rel", ev[2], ev[3]>>

\* every resource log lg acquired was released exactly once
ReleasedExactlyOnce(lg) ==
    \A i \in 1..Len(lg) :
        /\ Count(lg, AcqOf(lg[i])) = 1
        /\ Count(lg, RelOf(lg[i])) = 1

\* no release function was called twice for a resource, or for one not acquired
NoSecondRelease(lg) ==
    \A i \in 1..Len(lg) :
        /\ Count(lg, RelOf(lg[i])) <= 1
        /\ Count(lg, RelOf(lg[i])) <= Count(lg, AcqOf(lg[i]))

\* the last descriptor log lg opened (0: none): the one sock_connect returns
\* when it returns one
LastOpened(lg) ==
    LET ks == {lg[i][3] : i \in {j \in 1..Len(lg) : lg[j][1] = "acq" /\ lg[j][2] = "sock"}}
    IN IF ks = {} THEN 0 ELSE CHOOSE k \in ks : \A m \in ks : m <= k

\* the resources whose release function log lg names, in the order of the
\* calls, but for the descriptors sock_connect opened and did not return
RECURSIVE ReleasesOf(_, _)
ReleasesOf(lg, last) ==
    IF lg = <<>> THEN <<>>
    ELSE (IF lg[1][1] = "rel" /\ (lg[1][2] = "sock" => lg[1][3] = last)
          THEN <<lg[1][2]>> ELSE <<>>) \o ReleasesOf(Tail(lg), last)

Releases(lg) == ReleasesOf(lg, LastOpened(lg))

CleanupOrder == <<"qp", "mr", "buf", "cq", "pd", "ib_ctx", "dev_list", "sock">>

OrderIndex(x) == CHOOSE i \in 1..Len(CleanupOrder) : CleanupOrder[i] = x

\* the names of seq follow one another as they do in CleanupOrder
InCleanupOrder(seq) ==
    \A i, j \in 1..Len(seq) : i < j => OrderIndex(seq[i]) < OrderIndex(seq[j])

AllHandlesNull(r) == \A i \in 1..Len(HandleFields) : r[HandleFields[i]] = 0

AllHandlesLive(r) == \A i \in 1..Len(HandleFields) : r[HandleFields[i]] # 0

Returned(s) == s.state = "done"

\* the number of the exchange peer p is in (SpecSync)
ExchangeNo(p) == ncall[p] + 1

----------------------------------------------------------------------------
\* C1: when a Write(contents) on one peer and a Read on the other, made as
\* the same call of each (their barriers matched), have both returned
\* without error, the value Read returned equals contents, whatever the
\* order of the copy, the landing of the RDMA write, and the sampling and
\* landing of the RDMA read.
C1_ReadReturnsWhatWasWritten ==
    \A w \in Peers :
        (/\ pc[w] = "idle" /\ pc[Other(w)] = "idle"
         /\ ncall[w] = ncall[Other(w)]
         /\ call[w].op = "Write" /\ call[w].err = "nil"
         /\ call[Other(w)].op = "Read" /\ call[Other(w)].err = "nil")
            => call[Other(w)].value = call[w].contents

\* C2: when every socket and verbs call succeeds, connect_qp eventually
\* returns success on both peers (both initialisations end connected).
C2_ConnectReturnsOnBoth == <>(\A p \in Peers : pc[p] = "connected")

\* C3: once connect_qp has returned success on both peers, each peer's
\* remote_props equals, field by field, the values the other peer encoded.
C3_RemotePropsArePeersValues ==
    (\A p \in Peers : pc[p] = "connected")
        => \A p \in Peers : res[p].remote_props = conn[Other(p)].local

\* C4: a sock_sync_data call that returned success has taken exactly
\* xfer_size bytes from the stream: not fewer (it did not return early), not
\* more (no byte of the peer's next exchange).
C4_ConsumesExactlyXferSize ==
    \A p \in Peers :
        (Returned(sync[p]) /\ sync[p].rc = 0)
            => sync[p].total_read_bytes = sync[p].xfer_size

\* C5: when sock_sync_data returns success, remote_data holds the bytes the
\* peer passed as its local block of the same exchange, in the order sent.
C5_RemoteDataIsPeersBlock ==
    \A p \in Peers :
        (Returned(sync[p]) /\ sync[p].rc = 0)
            => sync[p].remote_data = LocalBlock(Other(p), ExchangeNo(p))

\* C6: once a read has returned 0 (the stream ended) before xfer_size bytes
\* were received, sock_sync_data leaves its loop with a failure result.
C6_EndOfStreamFails ==
    \A p \in Peers :
        sync[p].eof => (~LoopTest(sync[p]) /\ sync[p].rc # 0)

\* C7: when the write wrote fewer than xfer_size bytes (0 bytes and -1
\* included), sock_sync_data makes no read and its result is a failure.
C7_ShortWriteFails ==
    \A p \in Peers :
        (sync[p].state \in {"read", "done"} /\ sync[p].wrote < sync[p].xfer_size)
            => (~sync[p].didRead /\ sync[p].rc # 0)

\* C8: when resources_create has failed, every resource acquired in the
\* call has been released exactly once, the releases follow the order qp,
\* mr, buf, cq, pd, device context, device list, socket, every handle
\* field is null and sock is -1.
C8_CreateFailureReleasesAll ==
    \A p \in Peers :
        pc[p] = "create_failed" =>
            /\ ReleasedExactlyOnce(log[p])
            /\ InCleanupOrder(Releases(log[p]))
            /\ AllHandlesNull(res[p])
            /\ res[p].sock = -1

\* C9: initRDMAConnection is all-or-nothing: it returns the resource set
\* (every component acquired and held, queue pair in RTS) with a nil error,
\* or nil with an error after every resource acquired in the call has been
\* released exactly once.
C9_InitAllOrNothing ==
    \A p \in Peers :
        /\ conn[p].ret = "ok" <=> pc[p] = "connected"
        /\ conn[p].ret = "err" <=> pc[p] \in {"create_failed", "connect_failed"}
        /\ conn[p].ret = "ok" =>
              /\ AllHandlesLive(res[p])
              /\ \A i \in 1..Len(HandleFields) :
                    /\ Count(log[p], Acq(HandleFields[i])) = 1
                    /\ Count(log[p], Rel(HandleFields[i])) = 0
              /\ res[p].sock >= 0
              /\ Count(log[p], Open(Instance(res[p].sock))) = 1
              /\ Count(log[p], Close(Instance(res[p].sock))) = 0
              /\ qp[p].state = "RTS"
        /\ conn[p].ret = "err" => ReleasedExactlyOnce(log[p])

\* C10: resources_destroy on a resource set whose resources_create failed
\* calls no release function for a handle that is null or was already
\* released (nothing is released a second time), and so no release fails.
C10_DestroyAfterFailedCreate ==
    \A p \in Peers :
        pc[p] = "destroyed" => (NoSecondRelease(log[p]) /\ conn[p].destroy_rc = 0)

\* C10's case: resources_create failed at its last step, with everything
\* else acquired and released by its cleanup, and resources_destroy has run
C10_Witness ==
    \E p \in Peers :
        /\ pc[p] = "destroyed"
        /\ Count(log[p], Rel("mr")) = 1
        /\ \E k \in 1..(MaxAddrs + 1) : Count(log[p], Close(k)) = 1

\* the releases resources_destroy owes to the resource set r, in its order
RECURSIVE OwedHandles(_, _)
OwedHandles(r, k) ==
    IF k > Len(HandleFields) THEN <<>>
    ELSE (IF r[HandleFields[k]] # 0 THEN <<Rel(HandleFields[k])>> ELSE <<>>)
         \o OwedHandles(r, k + 1)

Owed(r) ==
    OwedHandles(r, 1) \o (IF r.sock >= 0 THEN <<Close(Instance(r.sock))>> ELSE <<>>)

\* C11: resources_destroy calls the release of every populated component,
\* in the order qp, mr, buf, cq, pd, device context, socket, whichever of
\* them failed, and returns non-zero if and only if one of the releases it
\* called failed.
C11_DestroyReleasesAllAndAggregates ==
    \A p \in Peers :
        pc[p] \in {"released", "destroyed", "connect_failed"} =>
            /\ conn[p].released = Owed(res[p])
            /\ (conn[p].destroy_rc # 0) <=> (conn[p].failed # {})

\* resources_destroy ran on a filled set, its first release failed, and the
\* socket was closed all the same
C11_Witness ==
    \E p \in Peers :
        /\ pc[p] = "released"
        /\ conn[p].failed = {"qp"}
        /\ Len(conn[p].released) = Len(HandleFields) + 1
        /\ conn[p].destroy_rc = 1

\* the states of a queue pair on its way to a connection
QpPath == <<"RESET", "INIT", "RTR", "RTS">>

\* the positions of a thread inside connect_qp, and behind its return
InConnectQp ==
    {"connect_qp", "xchg_con_data", "to_init", "post_receive", "to_rtr", "to_rts",
     "xchg_rts"}

AfterConnectQp == {"connect_ret", "connected", "connect_failed"}

\* C12: in connect_qp the i-th ibv_modify_qp call asks for the move from the
\* i-th state of RESET, INIT, RTR, RTS to the next (forward, one step at a
\* time, no call made twice); a call that was rejected is the last one made
\* and makes connect_qp return non-zero; the queue pair stands where the last
\* accepted call put it; connect_qp returns 0 only with the queue pair in RTS.
C12_QpForwardOnly ==
    \A p \in Peers :
        LET m == conn[p].modify
        IN /\ Len(m) <= Len(QpPath) - 1
           /\ \A i \in 1..Len(m) :
                 /\ m[i].from = QpPath[i]
                 /\ m[i].to = QpPath[i + 1]
                 /\ i < Len(m) => m[i].rc = 0
           /\ pc[p] \in InConnectQp \cup {"connect_ret", "connected"} =>
                 qp[p].state = QpPath[1 + Cardinality({i \in 1..Len(m) : m[i].rc = 0})]
           /\ pc[p] \in AfterConnectQp /\ (\E i \in 1..Len(m) : m[i].rc # 0) =>
                 conn[p].rc # 0
           /\ pc[p] = "connect_ret" /\ conn[p].rc = 0 => qp[p].state = "RTS"
           /\ pc[p] = "connected" => qp[p].state = "RTS"

\* connect_qp returned after the move to RTR was rejected
C12_Witness ==
    \E p \in Peers :
        /\ pc[p] = "connect_ret"
        /\ Len(conn[p].modify) = 2
        /\ conn[p].modify[2].rc # 0
        /\ conn[p].rc # 0
        /\ qp[p].state = "INIT"

\* C13: when initRDMAConnection returned the resources on both peers, every
\* RDMA-WRITE or RDMA-READ work request either of them has posted was posted
\* with the queue pairs of both in RTS.
C13_PostsOnlyWhenBothRts ==
    (\A p \in Peers : conn[p].ret = "ok") =>
        \A p \in Peers :
            call[p].posted_in # <<>> => call[p].posted_in = <<"RTS", "RTS">>

\* C14: when the sock_sync_data of the descriptors returned non-zero (a
\* negative value, or the byte count of a short write), connect_qp returns
\* non-zero, remote_props is left as it was and no ibv_modify_qp call is made.
C14_FailedExchangeAborts ==
    \A p \in Peers :
        (conn[p].xchg # <<>> /\ conn[p].xchg[1] # 0) =>
            /\ pc[p] \in {"connect_ret", "connect_failed"}
            /\ conn[p].rc # 0
            /\ conn[p].modify = <<>>
            /\ res[p].remote_props = ZeroConData

\* C15: when connect_qp comes to modify_qp_to_rtr (the move to INIT made,
\* the move to RTR not yet), the peer in server role (no server name) has
\* posted exactly one receive work request and the peer in client role none.
C15_ServerPostsOneReceive ==
    \A p \in Peers :
        pc[p] = "to_rtr" =>
            qp[p].recv_posted = IF config[p].server_name = "" THEN 1 ELSE 0

\* C16: the gid field of the descriptor connect_qp sends (the last 16 bytes
\* of the block it passes to sock_sync_data) is the GID of the port when
\* config.gid_idx >= 0, and 16 zero bytes when it is negative.
C16_LocalGidIsPortGid ==
    \A p \in Peers :
        pc[p] = "xchg_con_data" =>
            SubSeq(sync[p].local_data, ConDataSize - 15, ConDataSize)
                = IF config[p].gid_idx >= 0 THEN PortGid(p) ELSE ZeroBytes(16)

\* C19: poll_completion returns 0 if and only if ibv_poll_cq gave it one
\* completion and the status of that completion is success; in every other
\* case (ibv_poll_cq failed, no completion within the timeout, a completion
\* with another status) it returns 1.
C19_PollSucceedsIffGoodCompletion ==
    \A p \in Peers :
        poll[p].state = "done" =>
            /\ poll[p].rc \in {0, 1}
            /\ (poll[p].rc = 0) <=>
                   (poll[p].poll_result = 1 /\ poll[p].status = "IBV_WC_SUCCESS")

\* one peer's poll_completion timed out and returned 1, the other's got a
\* completion with an error status and returned 1
C19_Witness ==
    \E p \in Peers :
        /\ poll[p].state = "done" /\ poll[p].poll_result = 0 /\ poll[p].rc = 1
        /\ poll[Other(p)].state = "done"
        /\ poll[Other(p)].poll_result = 1
        /\ poll[Other(p)].status = "IBV_WC_RETRY_EXC_ERR"
        /\ poll[Other(p)].rc = 1

\* C20: a poll_completion call that is in its loop returns, whether a
\* completion comes or not; when it returns without a completion, the
\* time it last read is MAX_POLL_CQ_TIMEOUT or more past the time it read at
\* its entry, and its result is 1.
C20_PollTerminates ==
    /\ \A p \in Peers : (poll[p].state = "loop") ~> (poll[p].state = "done")
    /\ [](\A p \in Peers :
            (poll[p].state = "done" /\ poll[p].poll_result = 0) =>
                /\ poll[p].rc = 1
                /\ poll[p].cur_time_msec - poll[p].start_time_msec
                      >= MAX_POLL_CQ_TIMEOUT)

\* a poll_completion returned 1 on a queue that never held a completion (the
\* work request is still with the adapters)
C20_Witness ==
    \E p \in Peers :
        /\ poll[p].state = "done"
        /\ poll[p].poll_result = 0
        /\ poll[p].rc = 1
        /\ wq[p] # <<>>
        /\ cqueue[p] = <<>>

\* the steps of a Write and of a Read, as call[p].steps names them
StepsOf(op) ==
    IF op = "Write" THEN <<"sync", "strcpy", "RDMA_WRITE", "poll", "sync">>
    ELSE <<"sync", "RDMA_READ", "poll", "sync">>

\* the steps p's call has made are the first steps of its operation, in order
StepsInOrder(p) ==
    LET t == call[p].steps
        o == StepsOf(call[p].op)
    IN  /\ Len(t) <= Len(o)
        /\ \A i \in 1..Len(t) : t[i].name = o[i]

\* no step of p's call was made after one that failed
NoStepAfterFailure(p) ==
    \A i \in 1..(Len(call[p].steps) - 1) : call[p].steps[i].ok

\* p's call made every step of its operation and every one succeeded
AllStepsSucceeded(p) ==
    /\ Len(call[p].steps) = Len(StepsOf(call[p].op))
    /\ \A i \in 1..Len(call[p].steps) : call[p].steps[i].ok

\* C17: Write makes its steps in the order barrier, copy, post of one
\* RDMA-WRITE, completion poll, barrier; no step is made after a step that
\* failed; and a Write that has returned returned nil exactly when all five
\* steps were made and succeeded.
C17_WriteStepsInOrder ==
    \A p \in Peers :
        call[p].op = "Write" =>
            /\ StepsInOrder(p)
            /\ NoStepAfterFailure(p)
            /\ call[p].err # "none" => (call[p].err = "nil" <=> AllStepsSucceeded(p))

\* the bytes of b before its first zero byte are v
UpToTerminator(b, v) ==
    /\ Len(v) <= Len(b)
    /\ \A i \in 1..Len(v) : v[i] = b[i] /\ v[i] # 0
    /\ Len(v) < Len(b) => b[Len(v) + 1] = 0

\* C18: Read makes its steps in the order barrier, post of one RDMA-READ,
\* completion poll, barrier; a Read that has returned after a failed step
\* returned the empty string and an error, and any other Read that has
\* returned returned nil and the bytes of the buffer up to the first
\* terminator.
C18_ReadStepsAndValue ==
    \A p \in Peers :
        call[p].op = "Read" =>
            /\ StepsInOrder(p)
            /\ call[p].err # "none" =>
                  IF AllStepsSucceeded(p)
                  THEN call[p].err = "nil" /\ UpToTerminator(call[p].buf, call[p].value)
                  ELSE call[p].err # "nil" /\ call[p].value = <<>>

\* C21: at every moment each endpoint has at most one send work request
\* outstanding (posted, its completion not yet taken from the completion
\* queue), whatever calls of Write and Read were made before and however
\* they returned.
C21_OneOutstandingRequest ==
    \A p \in Peers :
        /\ Outstanding(p) <= max_send_wr
        /\ Len(cqueue[p]) <= cq_size

\* C22: when two initialisations run in two threads of one process, what
\* each call's resources_create and connect_qp read from config is what
\* that call wrote there: the role (server_name) it was given, at the test
\* of resources_create, at the call of sock_connect and at the test of
\* connect_qp, and the port it was given, at the call of sock_connect.
C22_ThreadsReadOwnConfig ==
    \A t \in Peers :
        /\ thr[t].create_role \in {"unread", thr[t].ip}
        /\ thr[t].sock_name \in {"unread", thr[t].ip}
        /\ thr[t].sock_port \in {0, thr[t].port}
        /\ thr[t].qp_role \in {"unread", thr[t].ip}

\* the sockets a log opened and did not close
OpenSockets(lg) ==
    {k \in 1..Len(lg) : Count(lg, Open(k)) > Count(lg, Close(k))}

\* C23: when sock_connect has returned, no socket it opened is open other
\* than the one it returned (none when it returned a failure), and in
\* server role it has accepted at most one connection, exactly one when it
\* returned a socket.
C23_SockConnectOneSocket ==
    \A p \in Peers :
        pc[p] = "sock_returned" =>
            LET sc == conn[p].sock
            IN /\ OpenSockets(sc.log) \subseteq
                     (IF sc.sockfd >= 0 THEN {Instance(sc.sockfd)} ELSE {})
               /\ config[p].server_name = "" =>
                     /\ sc.accepts <= 1
                     /\ sc.sockfd >= 0 => sc.accepts = 1

\* C24: a connect_qp that returned success made exactly two exchanges, one
\* of the 34 bytes of the packed descriptor and then one of 1 byte, on
\* either peer; a Write or Read that returned nil made exactly two
\* exchanges of 1 byte, the first before its work request was posted and
\* the second after the completion was polled.
C24_SameExchangesOnBothPeers ==
    \A p \in Peers :
        /\ conn[p].ret = "ok" => conn[p].sizes = <<34, 1>>
        /\ call[p].err = "nil" =>
              /\ call[p].sizes = <<1, 1>>
              /\ StepsInOrder(p)
              /\ Len(call[p].steps) = Len(StepsOf(call[p].op))

\* both peers connected, and one returned nil from a Write and the other
\* from a Read
C24_Witness ==
    /\ \A p \in Peers : conn[p].ret = "ok" /\ conn[p].sizes = <<ConDataSize, 1>>
    /\ \E p \in Peers :
          /\ call[p].op = "Write" /\ call[p].err = "nil"
          /\ call[Other(p)].op = "Read" /\ call[Other(p)].err = "nil"

\* C25: res.remote_props is assigned by connect_qp alone, behind its
\* descriptor exchange and once; from the return of the initialisation on,
\* no step of Write, Read, post_send or poll_completion changes it or the
\* state of the queue pair.
C25_RemotePropsWrittenOnce ==
    [][\A p \in Peers :
          /\ res'[p].remote_props # res[p].remote_props =>
                /\ pc[p] = "xchg_con_data"
                /\ conn[p].xchg = <<>>
          /\ conn[p].ret = "ok" =>
                /\ Len(conn[p].xchg) = 1
                /\ res'[p].remote_props = res[p].remote_props
                /\ qp'[p].state = qp[p].state]_vars

\* a peer whose connect_qp stored the peer's descriptor has returned nil
\* from a Write or a Read and holds the descriptor still
C25_Witness ==
    \E p \in Peers :
        /\ conn[p].ret = "ok"
        /\ call[p].err = "nil"
        /\ res[p].remote_props # ZeroConData
        /\ res[p].remote_props.addr = BufAddr(Other(p))
        /\ qp[p].state = "RTS"

\* C26: a Write or Read call made under two role labels, against the same
\* results of the calls it makes, makes the same barrier exchanges, buffer
\* updates, posts and polls in the same order under either label, returns
\* success under both or failure under both, and returns the same string;
\* only the text of the error may differ, and does not when the labels are
\* the same.
C26_LabelOnlyInErrorText ==
    runs.out # <<>> =>
        /\ runs.out[1].steps = runs.out[2].steps
        /\ runs.out[1].ok = runs.out[2].ok
        /\ runs.out[1].value = runs.out[2].value
        /\ runs.labels[1] = runs.labels[2] => runs.out[1].text = runs.out[2].text

\* a call made under two different labels: one that failed with an error
\* text naming the label, or a Write that made all its steps
C26_Witness ==
    /\ runs.out # <<>>
    /\ runs.labels[1] # runs.labels[2]
    /\ "server" \in {runs.labels[1], runs.labels[2]}
    /\ \/ ~runs.out[1].ok /\ runs.out[1].text # runs.out[2].text
       \/ runs.op = "Write" /\ runs.out[1].ok /\ Len(runs.out[1].steps) = 5

\* C27: from the moment initRDMAConnection has returned a resource set, and
\* through every Write and Read made on it, the socket descriptor of the
\* resource set is non-negative.
C27_SocketNonNegative ==
    \A p \in Peers : conn[p].ret = "ok" => res[p].sock >= 0

\* a peer was returned a resource set and has returned from a call on it,
\* the other peer's initialisation having met a failing socket call
C27_Witness ==
    \E p \in Peers :
        /\ conn[p].ret = "ok"
        /\ res[p].sock >= 0
        /\ call[p].err # "none"
        /\ \E k \in 1..MaxAddrs : Close(k) \in {log[Other(p)][i] : i \in 1..Len(log[Other(p)])}

\* what p decodes from the descriptor the other peer sends
PeerDescriptor(p) ==
    LET q == Other(p)
    IN DecodeConData(hostLE[p],
           ConDataOfBytes(hostLE[p],
               ConDataBytes(hostLE[q], EncodeConData(hostLE[q], conn[q].local))))

\* C28: connect_qp makes no queue-pair transition before its descriptor
\* exchange has completed, and the queue pair it has taken to RTR has as
\* destination queue-pair number and LID, and as destination GID when one
\* is used, the values decoded from the descriptor the peer sent.
C28_RtrUsesPeerDescriptor ==
    \A p \in Peers :
        /\ conn[p].modify # <<>> => conn[p].xchg = <<0>>
        /\ qp[p].state \in {"RTR", "RTS"} =>
              /\ qp[p].dest_qp_num = PeerDescriptor(p).qp_num
              /\ qp[p].dlid = PeerDescriptor(p).lid
              /\ qp[p].is_global => qp[p].dgid = PeerDescriptor(p).gid

\* C29: every work request Write or Read has posted names the remote
\* address and the remote key stored in res.remote_props, starts at the
\* first byte of the local buffer and is MSG_SIZE bytes long, whatever the
\* length of the payload.
C29_RequestCoversWholeBuffer ==
    \A p \in Peers :
        \A i \in 1..Len(wq[p]) :
            /\ wq[p][i].remote_addr = res[p].remote_props.addr
            /\ wq[p][i].rkey = res[p].remote_props.rkey
            /\ wq[p][i].addr = BufAddr(p)
            /\ wq[p][i].length = MSG_SIZE

\* a Write of a payload shorter than the buffer has posted its request
C29_Witness ==
    \E p \in Peers :
        /\ call[p].op = "Write"
        /\ Len(call[p].contents) + 1 < MSG_SIZE
        /\ wq[p] # <<>>
        /\ wq[p][1].length = MSG_SIZE
        /\ wq[p][1].opcode = "RDMA_WRITE"

\* the places in list of the devices named name
Named(list, name) == {i \in 1..Len(list) : list[i] = name}

\* C30: a resources_create that has returned selected the first device of
\* the list and stored its name in config.dev_name when no name was
\* configured, and the device whose name is the configured one otherwise;
\* it failed, with the socket it had opened closed and the device list
\* freed, exactly when the list was empty or held no device of the
\* configured name.
C30_DeviceSelection ==
    \A p \in Peers :
        pc[p] \in {"connect_qp", "create_failed"} =>
            LET d == conn[p].dev
                none == \/ Len(d.list) = 0
                        \/ d.configured # "" /\ Named(d.list, d.configured) = {}
            IN /\ pc[p] = "create_failed" <=> none
               /\ ~none /\ d.configured = "" =>
                     d.ib_dev = 1 /\ config[p].dev_name = d.list[1]
               /\ ~none /\ d.configured # "" =>
                     /\ d.ib_dev \in Named(d.list, d.configured)
                     /\ config[p].dev_name = d.configured
               /\ none =>
                     /\ res[p].sock = -1
                     /\ OpenSockets(log[p]) = {}
                     /\ Count(log[p], Acq("dev_list")) = 1
                     /\ Count(log[p], Rel("dev_list")) = 1

\* one peer selected the second device of its list by its configured name,
\* the other failed for want of a device of the configured name
C30_Witness ==
    \E p \in Peers :
        /\ pc[p] = "connect_qp"
        /\ conn[p].dev.configured # ""
        /\ conn[p].dev.ib_dev = 2
        /\ pc[Other(p)] = "create_failed"
        /\ conn[Other(p)].dev.list # <<>>
        /\ res[Other(p)].sock = -1

\* C31: after any sequence of Destroy calls on a resource set each handle
\* (queue pair, memory region, buffer, completion queue, protection domain,
\* device context, socket) has been released at most once.
C31_DestroyTwiceReleasesNothing ==
    \A p \in Peers : pc[p] = "released" => NoSecondRelease(log[p])

\* C32: whenever poll_completion inside a Write or Read call reports
\* success, the completion it consumed is that of the work request the same
\* call posted, never that of a request an earlier call posted.
C32_CompletionOfOwnRequest ==
    \A p \in Peers :
        (pc[p] = "poll" /\ poll[p].state = "done" /\ poll[p].rc = 0) =>
            poll[p].took = ncall[p]

\* p's last Write or Read returned the error of post_send or of
\* poll_completion
FailedAtRequest(p) ==
    /\ pc[p] = "idle"
    /\ call[p].err \in {"failed to post SR", "poll completion failed"}

\* C33: if a Write or Read of one peer fails at posting the work request or
\* at the completion poll and returns its error, the paired call on the
\* other peer eventually returns too.
C33_PeerOfFailedCallReturns ==
    \A p \in Peers :
        (FailedAtRequest(p) /\ pc[Other(p)] # "idle") ~> (pc[Other(p)] = "idle")

\* p's initialisation aborted in connect_qp on a rejected queue-pair
\* transition, and its resources were destroyed
AbortedInConnectQp(p) ==
    /\ pc[p] = "connect_failed"
    /\ sockOpen[p] = "closed"
    /\ \E i \in 1..Len(conn[p].modify) : conn[p].modify[i].rc # 0

\* C34: if one peer's initialisation aborts in connect_qp on a rejected
\* queue-pair transition and its resources are destroyed, the other peer's
\* initialisation eventually returns an error.
C34_PeerOfAbortedInitReturns ==
    \A p \in Peers :
        AbortedInConnectQp(p) ~> (pc[Other(p)] = "connect_failed")

DestroyCalls(lg) == Count(lg, Rel("qp"))

\* C36: on every path by which main ends after resources_create succeeded
\* (connect_qp failed, a sync error, a post or poll error, the user typing
\* exit), resources_destroy has been called exactly once on the resource
\* set.
C36_MainDestroysOnce ==
    \A p \in Peers : pc[p] = "main_end" => DestroyCalls(log[p]) = 1

=============================================================================
